---- MODULE Spec2Model ----
(***************************************************************************)
(* A model of the routing node of Redes_Lab3: the path calculators of      *)
(* dijkstra.py and flooding.py, and the RouterNode of router.py (neighbour *)
(* liveness, distance-vector and link-state engines, data forwarding) with *)
(* the Redis pub/sub channels that connect the nodes.                      *)
(***************************************************************************)
EXTENDS Integers, Sequences, FiniteSets, TLC

VARIABLES
    dj,        \* the locals of one call of dijkstra(graph, start, target)
    fl,        \* the locals of one call of flooding_paths(graph, start, target, max_hops)
    enqueued,  \* history: how many entries the call of flooding_paths appended to its queue
    config,    \* per node: the constructor arguments of its RouterNode
    router,    \* per node: the fields of its RouterNode
    channel,   \* per node: the messages published on its Redis channel, not yet received
    hist,      \* history of the network: what was delivered, forwarded, how often
    thread     \* per node: where its listener and its monitor thread stand

purevars == <<dj, fl, enqueued>>
netvars == <<config, router, channel, hist, thread>>
vars == <<dj, fl, enqueued, config, router, channel, hist, thread>>

-----------------------------------------------------------------------------
(* Values shared by all parts of the model.                                *)

\* float('inf') / float('infinity'): larger than every cost the model reaches.
Inf == 999

\* Python's None.
None == "None"

\* Node identifiers; Python compares them as strings, NodeOrd gives that order.
AllNodes == {"A", "B", "C", "D", "E"}
NodeOrd == [n \in AllNodes \cup {None} |->
              CASE n = "A" -> 1 [] n = "B" -> 2 [] n = "C" -> 3
                [] n = "D" -> 4 [] n = "E" -> 5 [] OTHER -> 0]

Min(S) == CHOOSE x \in S : \A y \in S : x <= y

\* The elements of a set of nodes in ascending order, as a sequence.
RECURSIVE SortedSeq(_)
SortedSeq(S) ==
    IF S = {} THEN <<>>
    ELSE LET m == CHOOSE x \in S : \A y \in S : NodeOrd[x] <= NodeOrd[y]
         IN  <<m>> \o SortedSeq(S \ {m})

SeqToSet(s) == {s[i] : i \in 1..Len(s)}

\* The network part of the state while a path calculator is checked alone.
NetIdle ==
    /\ config = <<>>
    /\ router = <<>>
    /\ channel = <<>>
    /\ hist = <<>>
    /\ thread = <<>>

-----------------------------------------------------------------------------
(* dijkstra.py                                                             *)

\* Largest edge weight of the enumerated input graphs.
MaxWeight == 2

\* The nodes of the enumerated input graphs.
DjNodes == {"A", "B", "C"}

\* The graph of the socket simulation (and of the spec's test).
ExampleGraph ==
    [n \in AllNodes |->
       CASE n = "A" -> [m \in {"B", "C"} |-> IF m = "B" THEN 1 ELSE 4]
         [] n = "B" -> [m \in {"A", "C", "D"} |->
                          CASE m = "A" -> 1 [] m = "C" -> 2 [] OTHER -> 5]
         [] n = "C" -> [m \in {"A", "B", "D"} |->
                          CASE m = "A" -> 4 [] m = "B" -> 2 [] OTHER -> 1]
         [] n = "D" -> [m \in {"B", "C", "E"} |->
                          CASE m = "B" -> 5 [] m = "C" -> 1 [] OTHER -> 3]
         [] OTHER   -> [m \in {"D"} |-> 3]]

\* Adjacency maps over the keys K: every neighbour named is itself a key.
WeightedGraphs(K) == [K -> UNION { [S -> 0..MaxWeight] : S \in SUBSET K }]

ClosedWeighted(K) == {g \in WeightedGraphs(K) : \A k \in K : k \notin DOMAIN g[k]}

DjGraphs == UNION { ClosedWeighted(K) : K \in SUBSET DjNodes } \cup {ExampleGraph}

\* heapq orders the (distance, node) tuples lexicographically.
TupleLE(e, f) == e[1] < f[1] \/ (e[1] = f[1] /\ NodeOrd[e[2]] <= NodeOrd[f[2]])

PopMaxMutant(pq) == CHOOSE e \in pq : \A f \in pq : TupleLE(f, e)

\* heapq.heappop: the smallest tuple of the queue.
HeapPop(pq) == CHOOSE e \in pq : \A f \in pq : TupleLE(e, f)

\* dijkstra, lines 8-12: the locals before the loop.
DijkstraStart(graph, start, target) ==
    [graph |-> graph, start |-> start, target |-> target,
     distances |-> [n \in DOMAIN graph |-> IF n = start THEN 0 ELSE Inf],
     previous_nodes |-> [n \in DOMAIN graph |-> None],
     priority_queue |-> {<<0, start>>},
     pc |-> "loop", path |-> <<>>, cost |-> Inf]

\* dijkstra, lines 14-28: one iteration of the while loop.
DijkstraIter(st) ==
    LET e  == HeapPop(st.priority_queue)
        cd == e[1]
        cn == e[2]
        pq == st.priority_queue \ {e}
        better == {nb \in DOMAIN st.graph[cn] : cd + st.graph[cn][nb] < st.distances[nb]}
    IN  IF cn = st.target THEN [st EXCEPT !.priority_queue = pq, !.pc = "reconstruct"]
        ELSE IF cd > st.distances[cn] THEN
             [st EXCEPT !.priority_queue = pq,
                        !.pc = IF pq = {} THEN "reconstruct" ELSE "loop"]
        ELSE LET npq == pq \cup {<<cd + st.graph[cn][nb], nb>> : nb \in better}
             IN  [st EXCEPT
                    !.distances = [n \in DOMAIN st.distances |->
                                     IF n \in better THEN cd + st.graph[cn][n]
                                     ELSE st.distances[n]],
                    !.previous_nodes = [n \in DOMAIN st.previous_nodes |->
                                          IF n \in better THEN cn
                                          ELSE st.previous_nodes[n]],
                    !.priority_queue = npq,
                    !.pc = IF npq = {} THEN "reconstruct" ELSE "loop"]

\* dijkstra, lines 31-36: follow the predecessors from the target, reversed.
RECURSIVE PathBack(_, _)
PathBack(prev, node) ==
    IF node = None THEN <<>> ELSE PathBack(prev, prev[node]) \o <<node>>

\* dijkstra, lines 30-38: the returned (path, cost).
DijkstraReturn(st) ==
    LET path == PathBack(st.previous_nodes, st.target)
    IN  IF Len(path) > 0 /\ path[1] = st.start
        THEN [st EXCEPT !.pc = "done", !.path = path, !.cost = st.distances[st.target]]
        ELSE [st EXCEPT !.pc = "done", !.path = <<>>, !.cost = Inf]

\* dijkstra, lines 5-6: a start or target that is no key of the graph.
DijkstraAbsent(graph, start, target) ==
    [graph |-> graph, start |-> start, target |-> target,
     distances |-> <<>>, previous_nodes |-> <<>>, priority_queue |-> {},
     pc |-> "done", path |-> <<>>, cost |-> Inf]

DjInputNodes(graph) == IF graph = ExampleGraph THEN AllNodes ELSE DjNodes

\* dijkstra, lines 3-12: the call on an enumerated input.
DijkstraEnter(graph, start, target) ==
    IF start \notin DOMAIN graph \/ target \notin DOMAIN graph
    THEN DijkstraAbsent(graph, start, target)
    ELSE DijkstraStart(graph, start, target)

InitDijkstra ==
    /\ dj \in {DijkstraEnter(graph, start, target) :
                 graph \in DjGraphs, start \in AllNodes, target \in AllNodes}
    /\ dj.start \in DjInputNodes(dj.graph)
    /\ dj.target \in DjInputNodes(dj.graph)
    /\ fl = [pc |-> "idle"]
    /\ enqueued = 0
    /\ NetIdle

DjLoop ==
    /\ dj.pc = "loop"
    /\ dj' = DijkstraIter(dj)
    /\ UNCHANGED <<fl, enqueued, netvars>>

DjReturn ==
    /\ dj.pc = "reconstruct"
    /\ dj' = DijkstraReturn(dj)
    /\ UNCHANGED <<fl, enqueued, netvars>>

NextDijkstra == DjLoop \/ DjReturn

SpecDijkstra == InitDijkstra /\ [][NextDijkstra]_vars

\* Reference values for the claims: the cheapest cost by rounds of relaxation
\* over all edges, and what makes a sequence of nodes a path of a graph.
RECURSIVE RelaxRounds(_, _, _)
RelaxRounds(graph, start, k) ==
    IF k = 0 THEN [n \in DOMAIN graph |-> IF n = start THEN 0 ELSE Inf]
    ELSE LET d == RelaxRounds(graph, start, k - 1)
         IN  [n \in DOMAIN graph |->
                Min({d[n]} \cup {d[m] + graph[m][n] :
                                   m \in {x \in DOMAIN graph :
                                            n \in DOMAIN graph[x] /\ d[x] # Inf}})]

TrueMinCost(graph, start, target) ==
    RelaxRounds(graph, start, Cardinality(DOMAIN graph))[target]

RECURSIVE PathCost(_, _)
PathCost(graph, path) ==
    IF Len(path) <= 1 THEN 0
    ELSE graph[path[1]][path[2]] + PathCost(graph, Tail(path))

IsPathOf(graph, path, start, target) ==
    /\ Len(path) >= 1
    /\ path[1] = start
    /\ path[Len(path)] = target
    /\ \A i \in 1..Len(path) : path[i] \in DOMAIN graph
    /\ \A i \in 1..(Len(path) - 1) : path[i + 1] \in DOMAIN graph[path[i]]

DjNoPath ==
    \/ dj.start \notin DOMAIN dj.graph
    \/ dj.target \notin DOMAIN dj.graph
    \/ TrueMinCost(dj.graph, dj.start, dj.target) = Inf

\* C7: dijkstra returns the true minimum path cost from start to target with a
\* path of the graph from start to target whose edge costs sum to that cost,
\* and ([], infinity) exactly when start or target is absent or the target is
\* unreachable.
C7_DijkstraCorrect ==
    dj.pc = "done" =>
        /\ (dj.path = <<>> /\ dj.cost = Inf) <=> DjNoPath
        /\ ~DjNoPath =>
              /\ dj.cost = TrueMinCost(dj.graph, dj.start, dj.target)
              /\ IsPathOf(dj.graph, dj.path, dj.start, dj.target)
              /\ PathCost(dj.graph, dj.path) = dj.cost

\* C7 witness: the call D to B on the example graph returned D-C-B at cost 3.
C7_Witness ==
    /\ dj.pc = "done" /\ dj.graph = ExampleGraph
    /\ dj.start = "D" /\ dj.target = "B"
    /\ dj.path = <<"D", "C", "B">> /\ dj.cost = 3

DjExampleAE ==
    /\ dj.pc = "done" /\ dj.graph = ExampleGraph
    /\ dj.start = "A" /\ dj.target = "E"

\* C8 as stated: on the example graph dijkstra(A, E) returns a path from A to E
\* with total cost 8.
C8_Original ==
    DjExampleAE =>
        /\ IsPathOf(dj.graph, dj.path, "A", "E")
        /\ dj.cost = 8

\* C8 amended: on the example graph dijkstra(A, E) returns the path
\* A-B-C-D-E with total cost 7 (1 + 2 + 1 + 3).
C8_ExampleCostSeven ==
    DjExampleAE =>
        /\ dj.path = <<"A", "B", "C", "D", "E">>
        /\ PathCost(dj.graph, dj.path) = 7
        /\ dj.cost = 7

\* C8 witness: the call A to E on the example graph has returned.
C8_Witness == DjExampleAE /\ dj.cost = 7

-----------------------------------------------------------------------------
(* flooding.py                                                             *)

\* Largest max_hops of the enumerated calls.
MaxHops == 4

\* The nodes of the enumerated directed input graphs, and of the undirected ones.
FlNodes3 == {"A", "B", "C"}
FlNodes4 == {"A", "B", "C", "D"}

\* A graph maps each key to the sequence of its neighbours, in the order in
\* which iterating graph[node] yields them.
DirectedGraphs(K) == {[k \in K |-> SortedSeq(adj[k])] : adj \in [K -> SUBSET K]}

UndirectedGraphs(K) ==
    {[k \in K |-> SortedSeq({m \in K : {k, m} \in E})] :
        E \in SUBSET {e \in SUBSET K : Cardinality(e) = 2}}

\* The path graph A-B-C-D.
PathGraph4 == [k \in FlNodes4 |->
                 CASE k = "A" -> <<"B">> [] k = "B" -> <<"A", "C">>
                   [] k = "C" -> <<"B", "D">> [] OTHER -> <<"C">>]

FlGraphs == UNION {DirectedGraphs(K) : K \in SUBSET FlNodes3}
               \cup UndirectedGraphs(FlNodes4)

HopLimitOffByOne(hops, max_hops) == hops > max_hops

\* flooding_paths, lines 30-32: an entry at the hop limit is not expanded.
HopLimitReached(hops, max_hops) == hops >= max_hops

RECURSIVE FloodExpandCountAll(_, _, _)
FloodExpandCountAll(st, e, nbrs) ==
    IF nbrs = <<>> THEN st
    ELSE LET neighbor == Head(nbrs)
             new_path == Append(e.path, neighbor)
             st1 == IF neighbor # e.incoming_node /\ new_path \notin st.visited_paths
                    THEN [st EXCEPT
                            !.visited_paths = @ \cup {new_path},
                            !.queue = Append(@, [current_node |-> neighbor,
                                                 path |-> new_path,
                                                 incoming_node |-> e.current_node,
                                                 hops |-> e.hops + 1])]
                    ELSE st
         IN  FloodExpandCountAll([st1 EXCEPT !.packet_counter = @ + 1], e, Tail(nbrs))

\* flooding_paths, lines 34-44: the for loop over the neighbours of the entry e.
RECURSIVE FloodExpand(_, _, _)
FloodExpand(st, e, nbrs) ==
    IF nbrs = <<>> THEN st
    ELSE LET neighbor == Head(nbrs)
             new_path == Append(e.path, neighbor)
             st1 == IF neighbor # e.incoming_node /\ new_path \notin st.visited_paths
                    THEN [st EXCEPT
                            !.visited_paths = @ \cup {new_path},
                            !.queue = Append(@, [current_node |-> neighbor,
                                                 path |-> new_path,
                                                 incoming_node |-> e.current_node,
                                                 hops |-> e.hops + 1]),
                            !.packet_counter = @ + 1]
                    ELSE st
         IN  FloodExpand(st1, e, Tail(nbrs))

\* flooding_paths, lines 23-44: one iteration of the while loop.
FloodIter(st) ==
    LET e   == Head(st.queue)
        st0 == [st EXCEPT !.queue = Tail(@)]
        st1 == IF e.current_node = st.target
               THEN [st0 EXCEPT !.paths = Append(@, e.path)]
               ELSE IF HopLimitReached(e.hops, st.max_hops) THEN st0
               ELSE FloodExpand(st0, e, st.graph[e.current_node])
    IN  [st1 EXCEPT !.pc = IF st1.queue = <<>> THEN "done" ELSE "loop"]

\* flooding_paths, lines 10-21: the call, up to the first test of the loop.
FloodEnter(graph, start, target, max_hops) ==
    IF start \notin DOMAIN graph \/ target \notin DOMAIN graph
    THEN [graph |-> graph, start |-> start, target |-> target, max_hops |-> max_hops,
          paths |-> <<>>, packet_counter |-> 0, visited_paths |-> {},
          queue |-> <<>>, pc |-> "done"]
    ELSE [graph |-> graph, start |-> start, target |-> target, max_hops |-> max_hops,
          paths |-> <<>>, packet_counter |-> 1, visited_paths |-> {<<start>>},
          queue |-> <<[current_node |-> start, path |-> <<start>>,
                       incoming_node |-> None, hops |-> 0]>>,
          pc |-> "loop"]

InitFlooding ==
    /\ fl \in {FloodEnter(graph, start, target, max_hops) :
                 graph \in FlGraphs, start \in FlNodes4, target \in FlNodes4,
                 max_hops \in 0..MaxHops}
    /\ (DOMAIN fl.graph # FlNodes4) => (fl.start \in FlNodes3 /\ fl.target \in FlNodes3)
    /\ enqueued = Len(fl.queue)
    /\ dj = [pc |-> "idle"]
    /\ NetIdle

FlLoop ==
    /\ fl.pc = "loop"
    /\ fl' = FloodIter(fl)
    /\ enqueued' = enqueued + (Len(fl'.queue) - Len(Tail(fl.queue)))
    /\ UNCHANGED <<dj, netvars>>

NextFlooding == FlLoop

SpecFlooding == InitFlooding /\ [][NextFlooding]_vars

\* C9: every path flooding_paths returns starts at start, ends at target and
\* has at most max_hops edges; with max_hops = 2 on the path graph A-B-C-D no
\* path from A to D is returned.
C9_FloodingRespectsMaxHops ==
    /\ \A i \in 1..Len(fl.paths) :
          /\ fl.paths[i][1] = fl.start
          /\ fl.paths[i][Len(fl.paths[i])] = fl.target
          /\ Len(fl.paths[i]) - 1 <= fl.max_hops
    /\ (fl.pc = "done" /\ fl.graph = PathGraph4 /\ fl.start = "A"
          /\ fl.target = "D" /\ fl.max_hops = 2) => fl.paths = <<>>

\* A path that visits no node twice.
IsSimplePath(path) ==
    \A i \in 1..Len(path), j \in 1..Len(path) : path[i] = path[j] => i = j

\* No node of the graph is its own neighbour.
NoSelfLoops(graph) ==
    \A k \in DOMAIN graph : \A i \in 1..Len(graph[k]) : graph[k][i] # k

\* C34: every path flooding_paths returns visits each node at most once;
\* stated for the graphs in which no node is its own neighbour.
C34_FloodingPathsSimple ==
    NoSelfLoops(fl.graph) => \A i \in 1..Len(fl.paths) : IsSimplePath(fl.paths[i])

\* C9 witness: a finished call that returned a path of exactly max_hops >= 2
\* edges.
C9_Witness ==
    /\ fl.pc = "done"
    /\ fl.max_hops >= 2
    /\ \E i \in 1..Len(fl.paths) : Len(fl.paths[i]) - 1 = fl.max_hops

\* C10: the packet count equals the number of entries appended to the queue,
\* the initial entry included, at every point of the exploration and on return.
C10_PacketCountIsEnqueues == fl.pc \in {"loop", "done"} => fl.packet_counter = enqueued

\* C10 witness: a finished call whose loop skipped a neighbour (the incoming
\* node) and still appended several entries.
C10_Witness ==
    /\ fl.pc = "done"
    /\ fl.graph = PathGraph4 /\ fl.start = "A" /\ fl.target = "D" /\ fl.max_hops = 3
    /\ fl.packet_counter = 4

------------------------------------------------------------------------------
(* lab3_network.py: RouterNode.flooding_paths, and lab3.py:                 *)
(* LinkStateRouter._flooding, which is the same loop.  The search has no hop *)
(* limit; fl holds its locals.                                               *)

\* Bounds of what the model records of a search that does not end; the loop
\* reads none of the first three.
MaxWalk == 4         \* nodes of a path that an entry keeps (the last ones)
MaxPaths == 3        \* returned paths that are kept (the first ones)
MaxPackets == 12     \* packet_counter counts up to this value
MaxEdges == 4        \* edges of the graphs searched

\* The undirected graphs on four nodes with at most MaxEdges edges.
UfGraphs ==
    {g \in UndirectedGraphs(FlNodes4) :
        Len(g["A"]) + Len(g["B"]) + Len(g["C"]) + Len(g["D"]) <= 2 * MaxEdges}

LastNodes(path) ==
    IF Len(path) > MaxWalk THEN SubSeq(path, Len(path) - MaxWalk + 1, Len(path))
    ELSE path

\* lab3_network.py, lines 164-169: the for loop over the neighbours of e.
RECURSIVE UnboundedExpand(_, _, _)
UnboundedExpand(st, e, nbrs) ==
    IF nbrs = <<>> THEN st
    ELSE LET neighbor == Head(nbrs)
             st1 == IF neighbor # e.incoming_node
                    THEN [st EXCEPT
                            !.queue = Append(@, [current_node |-> neighbor,
                                                 path |-> LastNodes(Append(e.path, neighbor)),
                                                 incoming_node |-> e.current_node]),
                            !.packet_counter = IF @ < MaxPackets THEN @ + 1 ELSE @]
                    ELSE st
         IN  UnboundedExpand(st1, e, Tail(nbrs))

\* lab3_network.py, lines 155-169: one iteration of the while loop.  visited
\* is written at line 162 and read nowhere.
UnboundedIter(st) ==
    LET e   == Head(st.queue)
        st0 == [st EXCEPT !.queue = Tail(@)]
        st1 == IF e.current_node = st.target
               THEN [st0 EXCEPT !.paths = IF Len(@) < MaxPaths
                                          THEN Append(@, e.path) ELSE @]
               ELSE UnboundedExpand(
                        [st0 EXCEPT !.visited[e.current_node] = @ \cup {e.incoming_node}],
                        e, st.graph[e.current_node])
    IN  [st1 EXCEPT !.pc = IF st1.queue = <<>> THEN "done" ELSE "loop"]

\* lab3_network.py, lines 144-153: the call, up to the first test of the loop.
UnboundedEnter(graph, start, target) ==
    IF start \notin DOMAIN graph \/ target \notin DOMAIN graph
    THEN [graph |-> graph, start |-> start, target |-> target,
          visited |-> [k \in FlNodes4 |-> {}], paths |-> <<>>, packet_counter |-> 0,
          queue |-> <<>>, pc |-> "done"]
    ELSE [graph |-> graph, start |-> start, target |-> target,
          visited |-> [k \in FlNodes4 |-> {}], paths |-> <<>>, packet_counter |-> 1,
          queue |-> <<[current_node |-> start, path |-> <<start>>,
                       incoming_node |-> None]>>,
          pc |-> "loop"]

InitUnbounded ==
    /\ fl \in {UnboundedEnter(graph, start, target) :
                 graph \in UfGraphs, start \in FlNodes4, target \in FlNodes4}
    /\ enqueued = 0
    /\ dj = [pc |-> "idle"]
    /\ NetIdle

UnboundedLoop ==
    /\ fl.pc = "loop"
    /\ fl' = UnboundedIter(fl)
    /\ UNCHANGED <<dj, enqueued, netvars>>

NextUnbounded == UnboundedLoop

\* The loop is sequential code: while its test passes, it runs the body.
SpecUnbounded == InitUnbounded /\ [][NextUnbounded]_vars /\ WF_vars(UnboundedLoop)

\* C35: the search without hop limit ends on every finite graph.
C35_UnboundedFloodingTerminates == <>(fl.pc = "done")

-----------------------------------------------------------------------------
(* router.py: RouterNode.  A handler is an operator from the node's fields *)
(* r (and its input) to the fields after it and the messages it published, *)
(* in order: [r |-> ..., out |-> <<...>>].                                 *)

\* dict operations: d[k] = v, del d[k], d.get(k, default).
Put(f, k, v) == [x \in DOMAIN f \cup {k} |-> IF x = k THEN v ELSE f[x]]
Del(f, k) == [x \in DOMAIN f \ {k} |-> f[x]]
Get(f, k, default) == IF k \in DOMAIN f THEN f[k] ELSE default
EmptyDict == [x \in {} |-> None]

\* list operations: x in l, l.remove(x).
Has(l, x) == \E i \in 1..Len(l) : l[i] = x
ListRemove(l, x) ==
    LET i == CHOOSE j \in 1..Len(l) : l[j] = x /\ \A k \in 1..(j - 1) : l[k] # x
    IN  SubSeq(l, 1, i - 1) \o SubSeq(l, i + 1, Len(l))

\* neighbor_last_seen keeps its keys in insertion order; the times are abstracted.
Touch(keys, k) == IF Has(keys, k) THEN keys ELSE Append(keys, k)
DropKey(keys, k) == SelectSeq(keys, LAMBDA x : x # k)

\* send_message, lines 301-321: 'from' is left as the message has it, 'to' is
\* overwritten with the node the message is published to, hops is incremented.
SendMessage(destination_id, message) ==
    [message EXCEPT !.to = destination_id, !.hops = @ + 1]

\* send_hello, lines 231-239.
SendHello(r, destination_id) ==
    <<SendMessage(destination_id,
                  [type |-> "HELLO", from |-> r.node_id, to |-> None, hops |-> 0])>>

\* broadcast_to_neighbors, lines 323-328: the same dict is sent to each
\* neighbour in turn, so its hops field keeps counting.
RECURSIVE BroadcastToNeighbors(_, _, _)
BroadcastToNeighbors(nbrs, message, exclude) ==
    IF nbrs = <<>> THEN <<>>
    ELSE IF Head(nbrs) \in exclude
         THEN BroadcastToNeighbors(Tail(nbrs), message, exclude)
         ELSE LET sent == SendMessage(Head(nbrs), message)
              IN  <<sent>> \o BroadcastToNeighbors(Tail(nbrs), sent, exclude)

(* ===== distance vector ===== *)

NeighborDvTruthful(r, neighbor) == r.distance_vector

\* broadcast_distance_vector, lines 334-349: the vector advertised to one
\* neighbour, with poison reverse.
NeighborDv(r, neighbor) ==
    [d \in DOMAIN r.distance_vector |->
        IF d = neighbor THEN r.distance_vector[neighbor]
        ELSE IF Get(r.routing_table, d, None) = neighbor THEN Inf
        ELSE r.distance_vector[d]]

\* broadcast_distance_vector, lines 331-362.  basis and cause are history:
\* the tables the vector was built from, and the handler that sent it with,
\* for the failure handler, the neighbour lost and the routes it invalidated.
BroadcastDistanceVector(r, cause) ==
    [i \in 1..Len(r.neighbors) |->
        SendMessage(r.neighbors[i],
            [type |-> "DV_UPDATE",
             distance_vector |-> NeighborDv(r, r.neighbors[i]),
             from |-> r.node_id, to |-> None, hops |-> 0,
             basis |-> [distance_vector |-> r.distance_vector,
                        routing_table |-> r.routing_table,
                        neighbors |-> r.neighbors],
             cause |-> cause])]

\* apply_bellman_ford, lines 404-420: the routes offered by one neighbour's
\* cached vector.
RelaxVia(acc, r, neighbor) ==
    IF neighbor \notin DOMAIN r.neighbor_vectors THEN acc
    ELSE LET vec == r.neighbor_vectors[neighbor]
             better == {d \in DOMAIN vec :
                          /\ d # r.node_id
                          /\ vec[d] # Inf
                          /\ 1 + vec[d] < Get(acc.distance_vector, d, Inf)}
         IN  [distance_vector |->
                [d \in DOMAIN acc.distance_vector \cup better |->
                    IF d \in better THEN 1 + vec[d] ELSE acc.distance_vector[d]],
              routing_table |->
                [d \in DOMAIN acc.routing_table \cup better |->
                    IF d \in better THEN neighbor ELSE acc.routing_table[d]]]

RECURSIVE RelaxAll(_, _, _)
RelaxAll(acc, r, nbrs) ==
    IF nbrs = <<>> THEN acc
    ELSE RelaxAll(RelaxVia(acc, r, Head(nbrs)), r, Tail(nbrs))

\* apply_bellman_ford, lines 395-420: the tables recomputed from scratch.
BellmanFordTables(r) ==
    LET direct == SeqToSet(r.neighbors)
        start  == [distance_vector |->
                     [d \in {r.node_id} \cup direct |-> IF d \in direct THEN 1 ELSE 0],
                   routing_table |-> [d \in direct |-> d]]
    IN  RelaxAll(start, r, r.neighbors)

\* apply_bellman_ford, lines 422-439: the change detection.
BellmanFordChanged(r, new) ==
    \/ \E d \in DOMAIN new.distance_vector :
          \/ new.distance_vector[d] # Get(r.distance_vector, d, Inf)
          \/ Get(new.routing_table, d, None) # Get(r.routing_table, d, None)
    \/ \E d \in DOMAIN r.distance_vector :
          d \notin DOMAIN new.distance_vector /\ d # r.node_id

KeepAlways(r, new) ==
    [r |-> [r EXCEPT !.distance_vector = new.distance_vector,
                     !.routing_table = new.routing_table],
     updated |-> TRUE, raised |-> FALSE]

\* apply_bellman_ford, lines 441-448: the new tables are kept only if changed.
KeepIfChanged(r, new) ==
    IF BellmanFordChanged(r, new)
    THEN [r |-> [r EXCEPT !.distance_vector = new.distance_vector,
                          !.routing_table = new.routing_table],
          updated |-> TRUE, raised |-> FALSE]
    ELSE [r |-> r, updated |-> FALSE, raised |-> FALSE]

\* A cost of a received vector that is not a number (JSON null, a string).
NotANumber == -1

\* apply_bellman_ford, lines 404-415: 1 + neighbor_cost raises TypeError for a
\* cost that is not a number, in the cached vector of an active neighbour and
\* for a destination other than this node.
BellmanFordRaises(r) ==
    \E i \in 1..Len(r.neighbors) :
        /\ r.neighbors[i] \in DOMAIN r.neighbor_vectors
        /\ \E d \in DOMAIN r.neighbor_vectors[r.neighbors[i]] \ {r.node_id} :
              r.neighbor_vectors[r.neighbors[i]][d] = NotANumber

\* apply_bellman_ford, lines 386-448: [r, updated, raised].  The new tables
\* are locals until line 443, so an exception leaves the node's tables alone.
ApplyBellmanFord(r) ==
    IF BellmanFordRaises(r) THEN [r |-> r, updated |-> FALSE, raised |-> TRUE]
    ELSE KeepIfChanged(r, BellmanFordTables(r))

\* process_dv_update, lines 381-384, and _handle_new_neighbor, lines 192-194:
\* the vector is broadcast if apply_bellman_ford returned True; sent is what
\* the handler published before.
BroadcastIfUpdated(bf, sent, cause) ==
    [r |-> bf.r,
     out |-> sent \o (IF bf.updated THEN BroadcastDistanceVector(bf.r, cause)
                      ELSE <<>>),
     raised |-> bf.raised]

\* process_dv_update, lines 366-372: dv_msg['from'] or dv_msg['distance_vector']
\* of a message without that field raises KeyError, self.neighbor_vectors of a
\* node that is not in distance-vector mode raises AttributeError.
DvUpdateRaises(r, dv_msg) ==
    \/ "from" \notin DOMAIN dv_msg
    \/ "distance_vector" \notin DOMAIN dv_msg
    \/ r.algorithm # "distance_vector"

\* process_dv_update, lines 364-384.
ProcessDvUpdate(r, dv_msg) ==
    IF DvUpdateRaises(r, dv_msg) THEN [r |-> r, out |-> <<>>, raised |-> TRUE]
    ELSE BroadcastIfUpdated(
             ApplyBellmanFord([r EXCEPT
                 !.neighbor_vectors = Put(@, dv_msg.from, dv_msg.distance_vector),
                 !.neighbor_last_seen = Touch(@, dv_msg.from)]),
             <<>>, [kind |-> "update", dead |-> None, invalidated |-> {}])

\* _init_distance_vector, lines 257-271.
InitDistanceVector(r) ==
    LET direct == SeqToSet(r.neighbors)
        r1 == [r EXCEPT
                 !.distance_vector =
                     [d \in {r.node_id} \cup direct |-> IF d \in direct THEN 1 ELSE 0],
                 !.routing_table = [d \in direct |-> d],
                 !.neighbor_vectors = EmptyDict]
    IN  [r |-> r1,
         out |-> BroadcastDistanceVector(r1, [kind |-> "init", dead |-> None, invalidated |-> {}])]

NeighborsKeptOnFailure(nbrs, dead_neighbor) == nbrs

\* _handle_neighbor_failure, lines 121-122.
NeighborsAfterFailure(nbrs, dead_neighbor) ==
    IF Has(nbrs, dead_neighbor) THEN ListRemove(nbrs, dead_neighbor) ELSE nbrs

\* _handle_neighbor_failure, lines 133-136.
RoutesToInvalidate(r, dead_neighbor) ==
    {d \in DOMAIN r.routing_table : r.routing_table[d] = dead_neighbor}

\* _handle_neighbor_failure, lines 129-147: the neighbour's vector is dropped,
\* the routes via it are invalidated, its own entry is removed.
InvalidateRoutes(r, dead_neighbor, routes_to_invalidate) ==
    [r EXCEPT
       !.neighbor_vectors =
           IF dead_neighbor \in DOMAIN @ THEN Del(@, dead_neighbor) ELSE @,
       !.distance_vector =
           Del([d \in DOMAIN @ \cup routes_to_invalidate |->
                  IF d \in routes_to_invalidate THEN Inf ELSE @[d]],
               dead_neighbor),
       !.routing_table = [d \in DOMAIN @ \ routes_to_invalidate |-> @[d]]]

\* _handle_neighbor_failure, lines 149-155: the broadcast is unconditional,
\* unless apply_bellman_ford raised.
BroadcastAfterFailure(bf, cause) ==
    [r |-> bf.r,
     out |-> IF bf.raised THEN <<>> ELSE BroadcastDistanceVector(bf.r, cause),
     raised |-> bf.raised]

\* _handle_neighbor_failure, lines 128-155: the distance-vector branch.
FailureDistanceVector(r, dead_neighbor) ==
    BroadcastAfterFailure(
        ApplyBellmanFord(
            InvalidateRoutes(r, dead_neighbor, RoutesToInvalidate(r, dead_neighbor))),
        [kind |-> "failure", dead |-> dead_neighbor,
         invalidated |-> RoutesToInvalidate(r, dead_neighbor)])

\* _handle_new_neighbor, lines 183-194: the distance-vector branch.
NewNeighborDistanceVector(r, new_neighbor) ==
    BroadcastIfUpdated(
        ApplyBellmanFord([r EXCEPT
            !.distance_vector = Put(@, new_neighbor, 1),
            !.routing_table = Put(@, new_neighbor, new_neighbor)]),
        SendHello(r, new_neighbor),
        [kind |-> "new", dead |-> None, invalidated |-> {}])

(* ===== link state ===== *)

\* The default max_hops of flooding_paths.
DefaultMaxHops == 10

FloodLsaStaleRecord(r) ==
    IF r.algorithm # "link_state" THEN [r |-> r, out |-> <<>>]
    ELSE LET r1 == [r EXCEPT
                      !.seq_num = @ + 1,
                      !.link_state_db = Put(@, r.node_id,
                                            [seq_num |-> r.seq_num,
                                             neighbors |-> r.neighbors])]
         IN  [r |-> r1,
              out |-> BroadcastToNeighbors(r1.neighbors,
                         [type |-> "LSA", seq_num |-> r1.seq_num,
                          neighbors |-> r1.neighbors,
                          from |-> r1.node_id, to |-> None, hops |-> 0], {})]

\* flood_lsa, lines 451-471.
FloodLsa(r) ==
    IF r.algorithm # "link_state" THEN [r |-> r, out |-> <<>>]
    ELSE LET r1 == [r EXCEPT
                      !.seq_num = @ + 1,
                      !.link_state_db = Put(@, r.node_id,
                                            [seq_num |-> r.seq_num + 1,
                                             neighbors |-> r.neighbors])]
         IN  [r |-> r1,
              out |-> BroadcastToNeighbors(r1.neighbors,
                         [type |-> "LSA", seq_num |-> r1.seq_num,
                          neighbors |-> r1.neighbors,
                          from |-> r1.node_id, to |-> None, hops |-> 0], {})]

\* build_network_graph, lines 525-531: every link has cost 1.
BuildNetworkGraph(r) ==
    [node \in DOMAIN r.link_state_db |->
        [neighbor \in SeqToSet(r.link_state_db[node].neighbors) |-> 1]]

\* The nodes whose adjacency a search from start reads: start and what it
\* reaches through keys of the graph.
RECURSIVE Expanded(_, _)
Expanded(graph, seen) ==
    LET more == {m \in DOMAIN graph :
                   \E n \in seen : m \in DOMAIN graph[n]} \ seen
    IN  IF more = {} THEN seen ELSE Expanded(graph, seen \cup more)

\* distances[neighbor] raises KeyError for a neighbour that is no key.
GraphKeyError(graph, start) ==
    \E n \in Expanded(graph, {start}) :
        \E m \in DOMAIN graph[n] : m \notin DOMAIN graph

RECURSIVE DijkstraRun(_)
DijkstraRun(st) == IF st.pc = "loop" THEN DijkstraRun(DijkstraIter(st)) ELSE st

\* What dijkstra_all returns of the locals of the finished search.
DijkstraAllResult(st) ==
    [distances |-> st.distances, predecessors |-> st.previous_nodes]

\* dijkstra_all(graph, source): (distances, predecessors) of the single-source
\* search, the loop of dijkstra without a target.
DijkstraAll(graph, source) ==
    DijkstraAllResult(DijkstraRun(DijkstraStart(graph, source, None)))

\* calculate_routing_table, lines 556-561: walk the predecessors back from the
\* destination to the node whose predecessor is this node.
RECURSIVE FirstHop(_, _, _)
FirstHop(predecessors, self, next_hop) ==
    IF Get(predecessors, next_hop, None) = self THEN next_hop
    ELSE IF Get(predecessors, next_hop, None) = None THEN None
    ELSE FirstHop(predecessors, self, Get(predecessors, next_hop, None))

RoutesDirect(graph, self, all) ==
    LET dests == {d \in DOMAIN graph \ {self} :
                    /\ d \in DOMAIN all.distances
                    /\ all.distances[d] < Inf}
    IN  [d \in dests |->
            [next_hop |-> d, cost |-> all.distances[d], algorithm |-> "dijkstra"]]

\* calculate_routing_table, lines 548-568: the table built from the result
\* all of dijkstra_all.
RoutesFromDijkstra(graph, self, all) ==
    LET dests == {d \in DOMAIN graph \ {self} :
                    /\ d \in DOMAIN all.distances
                    /\ all.distances[d] < Inf
                    /\ FirstHop(all.predecessors, self, d) # None}
    IN  [d \in dests |->
            [next_hop |-> FirstHop(all.predecessors, self, d),
             cost |-> all.distances[d],
             algorithm |-> "dijkstra"]]

\* calculate_routing_table, lines 545-568: the dijkstra branch.
DijkstraRoutingTable(graph, self) ==
    RoutesFromDijkstra(graph, self, DijkstraAll(graph, self))

RECURSIVE FloodRun(_)
FloodRun(st) == IF st.pc = "loop" THEN FloodRun(FloodIter(st)) ELSE st

LongestPath(paths) ==
    paths[CHOOSE i \in 1..Len(paths) :
            \A j \in 1..Len(paths) : Len(paths[i]) >= Len(paths[j])]

\* min(paths, key=len): the first of the shortest paths.
ShortestPath(paths) ==
    paths[CHOOSE i \in 1..Len(paths) :
            /\ \A j \in 1..Len(paths) : Len(paths[i]) <= Len(paths[j])
            /\ \A j \in 1..(i - 1) : Len(paths[j]) > Len(paths[i])]

\* calculate_routing_table, lines 577-587: the entry for destination d built
\* from the finished call run of flooding_paths.
RouteFromFlooding(d, run, shortest_path) ==
    [next_hop |-> IF Len(shortest_path) > 1 THEN shortest_path[2] ELSE d,
     cost |-> Len(shortest_path) - 1,
     paths_found |-> Len(run.paths),
     packets_used |-> run.packet_counter,
     algorithm |-> "flooding"]

\* Iterating graph[node] yields the neighbours in the order of the list the
\* database stores for node.
NeighborOrder(r) ==
    [node \in DOMAIN r.link_state_db |-> r.link_state_db[node].neighbors]

\* calculate_routing_table, lines 572-579: flooding_paths for every node but
\* this one.
FloodingRuns(graph, self) ==
    [d \in DOMAIN graph \ {self} |-> FloodRun(FloodEnter(graph, self, d, DefaultMaxHops))]

\* calculate_routing_table, lines 575-587: the entries of the nodes with paths.
RoutesFromFlooding(runs) ==
    [d \in {x \in DOMAIN runs : runs[x].paths # <<>>} |->
        RouteFromFlooding(d, runs[d], ShortestPath(runs[d].paths))]

\* calculate_routing_table, lines 570-592: the flooding branch.
FloodingRoutingTable(graph, self) ==
    RoutesFromFlooding(FloodingRuns(graph, self))

\* calculate_routing_table, lines 541-595, on the graph built: [r, raised].
\* dijkstra_all raises before line 550 resets the table; flooding_paths raises
\* (graph[current_node], line 34 of flooding.py) in the call for the first
\* destination, after line 572 has reset it.
CalculateOnGraph(r, graph, key_error) ==
    IF r.routing_algo = "dijkstra"
    THEN IF key_error
         THEN [r |-> r, raised |-> TRUE]
         ELSE [r |-> [r EXCEPT !.routing_table =
                          DijkstraRoutingTable(graph, r.node_id)],
               raised |-> FALSE]
    ELSE IF r.routing_algo = "flooding"
    THEN IF key_error /\ DOMAIN graph # {r.node_id}
         THEN [r |-> [r EXCEPT !.routing_table = EmptyDict], raised |-> TRUE]
         ELSE [r |-> [r EXCEPT !.routing_table =
                          FloodingRoutingTable(NeighborOrder(r), r.node_id)],
               raised |-> FALSE]
    ELSE [r |-> r, raised |-> TRUE]

CalculateCounting(r) ==
    IF r.algorithm # "link_state" THEN [r |-> r, raised |-> FALSE]
    ELSE CalculateOnGraph([r EXCEPT !.seq_num = @ + 1], BuildNetworkGraph(r),
                          GraphKeyError(BuildNetworkGraph(r), r.node_id))

\* calculate_routing_table, lines 533-595: [r, raised].
CalculateRoutingTable(r) ==
    IF r.algorithm # "link_state" THEN [r |-> r, raised |-> FALSE]
    ELSE CalculateOnGraph(r, BuildNetworkGraph(r),
                          GraphKeyError(BuildNetworkGraph(r), r.node_id))

AcceptsNotOlder(r, source, seq_num) ==
    \/ source \notin DOMAIN r.link_state_db
    \/ seq_num >= r.link_state_db[source].seq_num

\* process_lsa, lines 485-486: is_new_source_info.
IsNewSourceInfo(r, source, seq_num) ==
    \/ source \notin DOMAIN r.link_state_db
    \/ seq_num > r.link_state_db[source].seq_num

StoreSourceAlways(r, lsa) ==
    Put(r.link_state_db, lsa.from,
        [seq_num |-> lsa.seq_num, neighbors |-> lsa.neighbors])

\* process_lsa, lines 491-497: the source's entry is replaced if the LSA is newer.
StoreSource(r, lsa) ==
    IF IsNewSourceInfo(r, lsa.from, lsa.seq_num)
    THEN Put(r.link_state_db, lsa.from,
             [seq_num |-> lsa.seq_num, neighbors |-> lsa.neighbors])
    ELSE r.link_state_db

\* process_lsa, lines 500-503: the neighbours the LSA names that the database
\* db does not hold.
Discovered(r, lsa, db) ==
    {nb \in SeqToSet(lsa.neighbors) : nb # r.node_id /\ nb \notin DOMAIN db}

\* process_lsa, lines 504-510: a placeholder entry for each discovered node.
AddPlaceholders(db, discovered, source) ==
    [x \in DOMAIN db \cup discovered |->
        IF x \in discovered
        THEN [seq_num |-> -1, neighbors |-> <<source>>]
        ELSE db[x]]

\* process_lsa, lines 515-521: after calculate_routing_table the LSA is
\* forwarded to the neighbours except its source; an exception ends the handler.
ForwardLsa(calc, lsa) ==
    IF calc.raised
    THEN [r |-> calc.r, out |-> <<>>, raised |-> TRUE]
    ELSE [r |-> calc.r,
          out |-> BroadcastToNeighbors(calc.r.neighbors, lsa, {lsa.from}),
          raised |-> FALSE]

\* process_lsa, lines 488-523, with the database db after the LSA was stored.
LearnFromLsa(r, lsa, db, learned_something_new) ==
    IF ~learned_something_new
    THEN [r |-> [r EXCEPT !.link_state_db = db], out |-> <<>>, raised |-> FALSE]
    ELSE ForwardLsa(CalculateRoutingTable([r EXCEPT !.link_state_db = db]), lsa)

\* process_lsa, lines 473-523.
ProcessLsa(r, lsa) ==
    IF r.algorithm # "link_state" THEN [r |-> r, out |-> <<>>, raised |-> FALSE]
    ELSE LearnFromLsa(r, lsa,
             AddPlaceholders(StoreSource(r, lsa),
                             Discovered(r, lsa, StoreSource(r, lsa)), lsa.from),
             \/ IsNewSourceInfo(r, lsa.from, lsa.seq_num)
             \/ Discovered(r, lsa, StoreSource(r, lsa)) # {})

\* The result of a handler that published out and then ran
\* calculate_routing_table.
CalculatedAfter(calc, out) == [r |-> calc.r, out |-> out, raised |-> calc.raised]

\* _init_link_state, lines 281-284, _handle_neighbor_failure, lines 165-169,
\* _handle_new_neighbor, lines 203-207: flood_lsa, then calculate_routing_table.
FloodThenCalculate(fl1) == CalculatedAfter(CalculateRoutingTable(fl1.r), fl1.out)

\* _init_link_state, lines 273-284.
InitLinkState(r) ==
    LET direct == SeqToSet(r.neighbors)
        r1 == [r EXCEPT
                 !.link_state_db =
                     [x \in {r.node_id} \cup direct |->
                         IF x = r.node_id
                         THEN [seq_num |-> 0, neighbors |-> r.neighbors]
                         ELSE [seq_num |-> 0, neighbors |-> <<r.node_id>>]],
                 !.seq_num = 0,
                 !.routing_table = EmptyDict]
    IN  FloodThenCalculate(FloodLsa(r1))

\* _handle_neighbor_failure, lines 158-169, and _handle_new_neighbor, lines
\* 196-207: the link-state branch of both.
NeighborChangeLinkState(r) ==
    LET r1 == [r EXCEPT !.link_state_db =
                  Put(@, r.node_id, [seq_num |-> r.seq_num, neighbors |-> r.neighbors])]
    IN  FloodThenCalculate(FloodLsa(r1))

(* ===== common methods ===== *)

NoRaise(res) == [r |-> res.r, out |-> res.out, raised |-> FALSE]

\* _handle_neighbor_failure, lines 120-126: the neighbour leaves the active
\* list and the monitoring.
FailureRemove(r, dead_neighbor) ==
    [r EXCEPT !.neighbors = NeighborsAfterFailure(@, dead_neighbor),
              !.neighbor_last_seen = DropKey(@, dead_neighbor)]

\* _handle_neighbor_failure, lines 128-169: the tables are brought up to date
\* and the change is announced.
FailureUpdate(r, dead_neighbor) ==
    IF r.algorithm = "distance_vector"
    THEN FailureDistanceVector(r, dead_neighbor)
    ELSE NeighborChangeLinkState(r)

\* _handle_neighbor_failure, lines 116-169.
HandleNeighborFailure(r, dead_neighbor) ==
    FailureUpdate(FailureRemove(r, dead_neighbor), dead_neighbor)

\* _handle_new_neighbor, lines 171-207.
HandleNewNeighbor(r, new_neighbor) ==
    LET r1 == [r EXCEPT
                 !.neighbors = IF Has(@, new_neighbor) THEN @ ELSE Append(@, new_neighbor),
                 !.neighbor_last_seen = Touch(@, new_neighbor),
                 !.known_neighbors = @ \cup {new_neighbor}]
    IN  IF r.algorithm = "distance_vector"
        THEN NewNeighborDistanceVector(r1, new_neighbor)
        ELSE NeighborChangeLinkState(r1)

\* process_hello, lines 241-251.
ProcessHello(r, hello_msg) ==
    LET source == hello_msg.from
        r1 == [r EXCEPT
                 !.neighbor_last_seen = Touch(@, source),
                 !.known_neighbors = @ \cup {source}]
    IN  IF ~Has(r.neighbors, source)
        THEN HandleNewNeighbor(r1, source)
        ELSE [r |-> r1, out |-> <<>>, raised |-> FALSE]

\* get_next_hop, lines 605-607: the next_hop of the entry, if there is one.
RouteInfoNextHop(calc, destination) ==
    [r |-> calc.r,
     next_hop |-> IF calc.raised \/ destination \notin DOMAIN calc.r.routing_table
                  THEN None
                  ELSE calc.r.routing_table[destination].next_hop,
     raised |-> calc.raised]

\* get_next_hop, lines 600-607: [r, next_hop, raised].
GetNextHop(r, destination) ==
    IF r.algorithm = "distance_vector"
    THEN [r |-> r, next_hop |-> Get(r.routing_table, destination, None),
          raised |-> FALSE]
    ELSE RouteInfoNextHop(CalculateRoutingTable(r), destination)

\* send_data, lines 613-625, and process_data_message, lines 635-641: the
\* message is sent to the next hop if there is one.
SendVia(hop, message) ==
    IF hop.raised \/ hop.next_hop = None
    THEN [r |-> hop.r, out |-> <<>>, raised |-> hop.raised]
    ELSE [r |-> hop.r, out |-> <<SendMessage(hop.next_hop, message)>>,
          raised |-> FALSE]

\* send_data, lines 609-625.  The message is built without a 'from' field;
\* dest is history: the destination_id the call was given.
SendData(r, destination_id) ==
    SendVia(GetNextHop(r, destination_id),
            [type |-> "MESSAGE", payload |-> "data", to |-> None, hops |-> 0,
             dest |-> destination_id, origin |-> r.node_id])

\* process_data_message, line 629: the message is for this node.
IsForThisNode(r, data_msg) == data_msg.to = r.node_id

\* process_data_message, lines 627-641.  Reading data_msg['from'] of a message
\* that has no such field raises KeyError.
ProcessDataMessage(r, data_msg) ==
    IF IsForThisNode(r, data_msg)
    THEN [r |-> r, out |-> <<>>, raised |-> "from" \notin DOMAIN data_msg]
    ELSE SendVia(GetNextHop(r, data_msg.to), data_msg)

\* process_message, lines 647-660.
ProcessMessage(r, message) ==
    CASE message.type = "DV_UPDATE" -> ProcessDvUpdate(r, message)
      [] message.type = "LSA"       -> ProcessLsa(r, message)
      [] message.type = "MESSAGE"   -> ProcessDataMessage(r, message)
      [] message.type = "HELLO"     -> ProcessHello(r, message)
      [] OTHER                      -> [r |-> r, out |-> <<>>, raised |-> FALSE]

\* set_routing_algorithm, lines 254-255.
SetRoutingAlgorithm(r, algorithm) == [r EXCEPT !.routing_algo = algorithm]

\* print_routing_info, lines 723-730: in link-state mode the table is
\* recalculated before it is printed.
PrintRoutingInfo(r) == CalculatedAfter(CalculateRoutingTable(r), <<>>)

\* request_route, lines 732-752: the returned (next_hop, cost).
RequestRoute(r, target) ==
    IF r.algorithm = "distance_vector"
    THEN IF target \in DOMAIN r.distance_vector
         THEN [next_hop |-> Get(r.routing_table, target, "Direct"),
               cost |-> r.distance_vector[target]]
         ELSE [next_hop |-> None, cost |-> Inf]
    ELSE IF target \in DOMAIN r.routing_table
         THEN [next_hop |-> r.routing_table[target].next_hop,
               cost |-> r.routing_table[target].cost]
         ELSE [next_hop |-> None, cost |-> Inf]

\* stop, lines 754-757.
Stop(r) == [r EXCEPT !.running = FALSE]

LoopTestAlways(r) == TRUE

\* The test of the while loops of listen_for_messages, line 664, and of
\* _monitor_neighbors, line 72.
LoopTest(r) == r.running

\* listen_for_messages, lines 666-678: json.loads raises JSONDecodeError for
\* data that is no JSON; what decodes goes to process_message.  Every
\* exception is caught and the loop goes on.
Received(r, data) ==
    IF data.type = "undecodable" THEN [r |-> r, out |-> <<>>, raised |-> TRUE]
    ELSE ProcessMessage(r, data)

\* _send_hello_to_neighbors, lines 111-114.
SendHelloToNeighbors(r) ==
    [i \in 1..Len(r.neighbors) |-> SendHello(r, r.neighbors[i])[1]]

\* The result of a handler run after the steps that gave res.
AndThen(res, one) == [r |-> one.r, out |-> res.out \o one.out, raised |-> one.raised]

\* _monitor_neighbors, lines 85-86: the failure handler once per dead
\* neighbour; an exception ends the iteration.
RECURSIVE HandleDeadNeighbors(_, _)
HandleDeadNeighbors(res, dead_neighbors) ==
    IF dead_neighbors = <<>> \/ res.raised THEN res
    ELSE HandleDeadNeighbors(
             AndThen(res, HandleNeighborFailure(res.r, Head(dead_neighbors))),
             Tail(dead_neighbors))

\* _monitor_neighbors, lines 88-94: the Hellos follow unless an exception
\* ended the iteration.
HelloAfter(res) ==
    IF res.raised THEN res
    ELSE [r |-> res.r, out |-> res.out \o SendHelloToNeighbors(res.r),
          raised |-> FALSE]

\* _monitor_neighbors, lines 72-94: one iteration of the loop; timed_out are
\* the neighbours whose last-seen age exceeds the threshold.
MonitorNeighbors(r, timed_out) ==
    HelloAfter(HandleDeadNeighbors(
                   [r |-> r, out |-> <<>>, raised |-> FALSE],
                   SelectSeq(r.neighbor_last_seen,
                             LAMBDA x : x \in timed_out /\ Has(r.neighbors, x))))

\* __init__, lines 23-62: the fields of a node constructed from its config.
Construct(node_id, cfg) ==
    LET r0 == [node_id |-> node_id,
               running |-> TRUE,
               algorithm |-> cfg.algorithm,
               routing_algo |-> cfg.routing_algorithm,
               neighbors |-> cfg.neighbors,
               neighbor_last_seen |-> cfg.neighbors,
               known_neighbors |-> SeqToSet(cfg.neighbors),
               distance_vector |-> EmptyDict,
               routing_table |-> EmptyDict,
               neighbor_vectors |-> EmptyDict,
               link_state_db |-> EmptyDict,
               seq_num |-> 0]
    IN  IF cfg.algorithm = "distance_vector" THEN NoRaise(InitDistanceVector(r0))
        ELSE IF cfg.algorithm = "link_state" THEN InitLinkState(r0)
        ELSE [r |-> r0, out |-> <<>>, raised |-> TRUE]

\* A node whose process has not been started.
NotStarted(node_id) ==
    [node_id |-> node_id, running |-> FALSE, algorithm |-> None,
     routing_algo |-> None, neighbors |-> <<>>, neighbor_last_seen |-> <<>>,
     known_neighbors |-> {}, distance_vector |-> EmptyDict,
     routing_table |-> EmptyDict, neighbor_vectors |-> EmptyDict,
     link_state_db |-> EmptyDict, seq_num |-> 0]

-----------------------------------------------------------------------------
(* The network: nodes as processes, Redis channels between them.           *)

\* Bounds of the network model.
MaxChannel == 7      \* messages published and not yet received, over all channels
MaxMonitor == 1      \* iterations of the monitoring loop, over all nodes
MaxData == 1         \* send commands of the console, over all nodes
MaxConsole == 1      \* other commands of the console, over all nodes
MaxForeign == 1      \* messages published by clients that are no routers
MaxFailures == 2     \* neighbours found dead by the monitors, over all nodes

\* The identifiers in use: nodes that run, and names that are only configured.
Ids == {"A", "B", "C", "D"}

\* The nodes whose processes are started.
Nodes == {"A", "B", "C"}

\* r.publish, line 315: Redis delivers to the subscribers of the channel at
\* the time of the publish; a node subscribes when constructed (line 56), so a
\* message to a node that is not running is lost.
RECURSIVE Publish(_, _, _)
Publish(ch, rt, out) ==
    IF out = <<>> THEN ch
    ELSE LET m == Head(out)
         IN  Publish(IF rt[m.to].running THEN [ch EXCEPT ![m.to] = Append(@, m)] ELSE ch,
                     rt, Tail(out))

InFlight(ch) == Len(ch["A"]) + Len(ch["B"]) + Len(ch["C"]) + Len(ch["D"])

ChannelsBounded(ch) == InFlight(ch) <= MaxChannel

\* The threads of a node that was not constructed, and of one that was, lines
\* 59 and 62: both at the test of their while loop.  dead_neighbors is the
\* local list of the monitor's iteration; found is what the test of line 121
\* gave in the call of the failure handler that the monitor is in;
\* bellman_ford is the locals of the listener's call of apply_bellman_ford.
NoThreads ==
    [listener |-> "none", monitor |-> "none", dead_neighbors |-> <<>>, found |-> FALSE,
     bellman_ford |-> <<>>]

ThreadsStarted ==
    [listener |-> "test", monitor |-> "test", dead_neighbors |-> <<>>, found |-> FALSE,
     bellman_ford |-> <<>>]

\* The network before any node is started.
InitNetwork(cfg) ==
    /\ config = cfg
    /\ router = [n \in Ids |-> NotStarted(n)]
    /\ channel = [n \in Ids |-> <<>>]
    /\ hist = [delivered |-> {}, lsa_forwards |-> EmptyDict,
               lsa_duplicates |-> {}, stale_effect |-> {},
               failures |-> 0, monitored |-> 0, data_sent |-> 0,
               neighbor_changes |-> 0, console |-> 0, info |-> 0,
               send_results |-> {}, route_results |-> {},
               foreign |-> 0, malformed_effect |-> {}, wellformed_raised |-> {},
               reapplied_effect |-> {}, echo_unanswered |-> {}]
    /\ thread = [n \in Ids |-> NoThreads]
    /\ dj = [pc |-> "idle"]
    /\ fl = [pc |-> "idle"]
    /\ enqueued = 0

\* The copies of LSAs of other nodes among the messages a step published.
ForwardedLsas(n, out) ==
    {<<n, out[i].from, out[i].seq_num>> :
        i \in {j \in 1..Len(out) : out[j].type = "LSA" /\ out[j].from # n}}

CountForwards(counts, keys) ==
    [k \in DOMAIN counts \cup keys |->
        IF k \in keys THEN Get(counts, k, 0) + 1 ELSE counts[k]]

\* The node's fields and the channels after a handler of node n that gave
\* res; ch is the channels as the handler found them.
Handled(n, res, ch) ==
    /\ router' = [router EXCEPT ![n] = res.r]
    /\ channel' = Publish(ch, router, res.out)
    /\ ChannelsBounded(channel')

\* __init__ that raises leaves no node, but what it published stays published.
Constructed(r, res) ==
    IF res.raised THEN [r |-> r, out |-> res.out, raised |-> TRUE] ELSE res

\* A node's process is started: __init__, lines 10-62.
StartNode(n) ==
    /\ n \in DOMAIN config
    /\ thread[n] = NoThreads
    /\ Handled(n, Constructed(router[n], Construct(n, config[n])), channel)
    /\ thread' = [thread EXCEPT ![n] = IF router'[n].running THEN ThreadsStarted ELSE @]
    /\ UNCHANGED <<config, hist, purevars>>

\* The structures of a node that its handlers share.
Tables(r) ==
    <<r.neighbors, r.distance_vector, r.link_state_db, r.neighbor_vectors,
      r.routing_table>>

\* Data that cannot be decoded, an update that lacks a field it must have, or
\* one whose vector holds a cost that is not a number.
Malformed(message) ==
    \/ message.type = "undecodable"
    \/ /\ message.type = "DV_UPDATE"
       /\ \/ "from" \notin DOMAIN message
          \/ "distance_vector" \notin DOMAIN message
          \/ \E d \in DOMAIN message.distance_vector :
                message.distance_vector[d] = NotANumber

\* Whether res, the result of node r processing an Echo, has the sender seen,
\* an active neighbour, and sent a Hello.
EchoHandled(r, message, res) ==
    /\ Has(res.r.neighbor_last_seen, message.from)
    /\ Has(res.r.neighbors, message.from)
    /\ \E i \in 1..Len(res.out) :
          res.out[i].type = "HELLO" /\ res.out[i].to = message.from

\* History of one received message: message was processed by node r with
\* result res.
Recorded(h, r, message, res) ==
    [h EXCEPT
       !.delivered =
           IF message.type = "MESSAGE" /\ IsForThisNode(r, message)
           THEN @ \cup {[at |-> r.node_id, dest |-> message.dest,
                         origin |-> message.origin]}
           ELSE @,
       !.lsa_forwards =
           IF message.type = "LSA"
           THEN CountForwards(@, ForwardedLsas(r.node_id, res.out))
           ELSE @,
       !.lsa_duplicates =
           IF message.type = "LSA" /\ message.from # r.node_id
              /\ <<r.node_id, message.from, message.seq_num>> \in DOMAIN h.lsa_forwards
           THEN @ \cup {<<r.node_id, message.from, message.seq_num>>}
           ELSE @,
       !.stale_effect =
           IF /\ message.type = "LSA"
              /\ message.from \in DOMAIN r.link_state_db
              /\ r.link_state_db[message.from].seq_num >= message.seq_num
              /\ \/ res.r.link_state_db # r.link_state_db
                 \/ res.r.routing_table # r.routing_table
                 \/ res.out # <<>>
           THEN @ \cup {r.node_id}
           ELSE @,
       !.neighbor_changes =
           IF res.r.neighbors # r.neighbors THEN 1 ELSE @,
       !.malformed_effect =
           IF Malformed(message) /\ Tables(res.r) # Tables(r)
           THEN @ \cup {r.node_id} ELSE @,
       !.wellformed_raised =
           IF message.type = "DV_UPDATE" /\ ~Malformed(message) /\ res.raised
           THEN @ \cup {r.node_id} ELSE @,
       !.echo_unanswered =
           IF message.type = "ECHO" /\ ~EchoHandled(r, message, res)
           THEN @ \cup {r.node_id} ELSE @]

\* listen_for_messages, lines 662-678: one message is received and processed;
\* an exception raised by the handler is caught and printed.
ListenForMessages(n) ==
    /\ LoopTest(router[n])
    /\ channel[n] # <<>>
    /\ Handled(n, Received(router[n], Head(channel[n])),
               [channel EXCEPT ![n] = Tail(@)])
    /\ hist' = Recorded(hist, router[n], Head(channel[n]),
                        Received(router[n], Head(channel[n])))
    /\ UNCHANGED <<config, thread, purevars>>

\* _monitor_neighbors, lines 70-94: one iteration of the loop, in which the
\* neighbours of timed_out are found silent for longer than timeout_threshold.
MonitorStep(n) ==
    /\ LoopTest(router[n])
    /\ hist.monitored < MaxMonitor
    /\ \E timed_out \in SUBSET SeqToSet(router[n].neighbors) :
         /\ Handled(n, MonitorNeighbors(router[n], timed_out), channel)
         /\ hist' = [hist EXCEPT
               !.monitored = @ + 1,
               !.failures = @ + Cardinality(timed_out),
               !.neighbor_changes = IF timed_out # {} THEN 1 ELSE @]
    /\ UNCHANGED <<config, thread, purevars>>

\* interface.py, lines 87-151: an exception raised by a command leaves the
\* command loop, and the finally clause stops the router.
AfterCommand(res) ==
    IF res.raised THEN [r |-> Stop(res.r), out |-> res.out, raised |-> TRUE] ELSE res

\* pubsub.close() of stop, line 757: what waits on the node's channel is gone.
ClosedIf(raised, n) == IF raised THEN [channel EXCEPT ![n] = <<>>] ELSE channel

\* A command of the console of node n that gave res.
Commanded(n, res) == Handled(n, AfterCommand(res), ClosedIf(res.raised, n))

\* What one call of send_data did: whether the destination had a next hop
\* (an entry of the table held, or one that get_next_hop found), what the call
\* returned and how many messages it published.
SendResult(r, destination_id, hop, res) ==
    [node |-> r.node_id, destination |-> destination_id,
     no_next_hop |-> destination_id \notin DOMAIN r.routing_table /\ hop.next_hop = None,
     returned |-> IF res.raised THEN "raised"
                  ELSE IF res.out = <<>> THEN "False" ELSE "True",
     published |-> Len(res.out)]

\* The console's send command, interface.py lines 110-121: send_data, lines
\* 609-625.
ConsoleSendData(n) ==
    /\ router[n].running
    /\ hist.data_sent < MaxData
    /\ \E destination_id \in Ids \ {n} :
         /\ Commanded(n, SendData(router[n], destination_id))
         /\ hist' = [hist EXCEPT
               !.data_sent = @ + 1,
               !.send_results = @ \cup
                   {SendResult(router[n], destination_id,
                               GetNextHop(router[n], destination_id),
                               SendData(router[n], destination_id))}]
    /\ UNCHANGED <<config, thread, purevars>>

\* The path algorithms the console's algorithm command is given: the two the
\* node implements and a name it does not.
PathAlgorithms == {"dijkstra", "flooding", "bfs"}

\* The console's algorithm command, interface.py lines 102-108.
ConsoleAlgorithm(n) ==
    /\ router[n].running
    /\ router[n].algorithm = "link_state"
    /\ hist.console < MaxConsole
    /\ \E new_algorithm \in PathAlgorithms \ {router[n].routing_algo} :
         router' = [router EXCEPT ![n] = SetRoutingAlgorithm(@, new_algorithm)]
    /\ hist' = [hist EXCEPT !.console = @ + 1]
    /\ UNCHANGED <<config, channel, thread, purevars>>

\* The console's info command, interface.py lines 91-92, in link-state mode.
ConsoleInfo(n) ==
    /\ router[n].running
    /\ router[n].algorithm = "link_state"
    /\ hist.console < MaxConsole
    /\ Commanded(n, PrintRoutingInfo(router[n]))
    /\ hist' = [hist EXCEPT !.console = @ + 1, !.info = @ + 1]
    /\ UNCHANGED <<config, thread, purevars>>

\* What one call of request_route returned, and whether the node held a
\* route to the target.
RouteResult(r, target, route) ==
    [node |-> r.node_id, target |-> target,
     no_route |-> target \notin DOMAIN r.routing_table /\ target # r.node_id,
     next_hop |-> route.next_hop, cost |-> route.cost]

\* The console's route command, interface.py lines 132-138.
ConsoleRoute(n) ==
    /\ router[n].running
    /\ hist.console < MaxConsole
    /\ \E target \in Ids :
         hist' = [hist EXCEPT
            !.console = @ + 1,
            !.route_results = @ \cup
                {RouteResult(router[n], target, RequestRoute(router[n], target))}]
    /\ UNCHANGED <<config, router, channel, thread, purevars>>

\* The console's ping command, interface.py lines 123-130: send_hello to any
\* name typed, the node's own included.
ConsolePing(n) ==
    /\ router[n].running
    /\ hist.console < MaxConsole
    /\ \E target \in Ids :
         Commanded(n, [r |-> router[n], out |-> SendHello(router[n], target),
                       raised |-> FALSE])
    /\ hist' = [hist EXCEPT !.console = @ + 1]
    /\ UNCHANGED <<config, thread, purevars>>

\* What a Redis client that is no router may publish on a node's channel.
MalformedMessages ==
    {[type |-> "undecodable"]}
    \cup {[type |-> "DV_UPDATE", distance_vector |-> [d \in {x} |-> 1],
           to |-> None, hops |-> 1] : x \in Ids}
    \cup {[type |-> "DV_UPDATE", from |-> f, to |-> None, hops |-> 1] : f \in Ids}
    \cup {[type |-> "DV_UPDATE", from |-> f, distance_vector |-> [d \in {x} |-> NotANumber],
           to |-> None, hops |-> 1] : f \in Ids, x \in Ids}

\* r.publish of another client, received through line 666: a malformed
\* message arrives on the channel of node n.
PublishForeign(n) ==
    /\ router[n].running
    /\ hist.foreign < MaxForeign
    /\ \E message \in MalformedMessages :
         channel' = [channel EXCEPT ![n] = Append(@, message)]
    /\ ChannelsBounded(channel')
    /\ hist' = [hist EXCEPT !.foreign = @ + 1]
    /\ UNCHANGED <<config, router, thread, purevars>>

\* r.publish of a peer that speaks the protocol, received through line 666:
\* an Echo of a neighbour arrives on the channel of node n.
PublishEcho(n) ==
    /\ router[n].running
    /\ hist.foreign < MaxForeign
    /\ \E sender \in SeqToSet(router[n].neighbors) \ {n} :
         channel' = [channel EXCEPT
                       ![n] = Append(@, [type |-> "ECHO", from |-> sender,
                                         to |-> n, hops |-> 1])]
    /\ ChannelsBounded(channel')
    /\ hist' = [hist EXCEPT !.foreign = @ + 1]
    /\ UNCHANGED <<config, router, thread, purevars>>

\* The messages of one type waiting on any channel.
Waiting(type) ==
    UNION {{channel[n][i] : i \in {j \in 1..Len(channel[n]) :
                                     channel[n][j].type = type}} : n \in Ids}

(* ===== distance-vector network ===== *)

\* The line A - B - C, every node running distance_vector.
DvLine ==
    [n \in {"A", "B", "C"} |->
        [algorithm |-> "distance_vector", routing_algorithm |-> None,
         neighbors |-> CASE n = "A" -> <<"B">>
                         [] n = "B" -> <<"A", "C">>
                         [] OTHER   -> <<"B">>]]

InitDV == InitNetwork(DvLine)

\* The nodes are started in any order, receive, and monitor their neighbours.
NextDV ==
    \E n \in Nodes :
        \/ StartNode(n)
        \/ ListenForMessages(n)
        \/ MonitorStep(n)

SpecDV == InitDV /\ [][NextDV]_vars

\* The nodes are started in any order, receive, and send data from the console.
NextData ==
    \E n \in Nodes :
        \/ StartNode(n)
        \/ ListenForMessages(n)
        \/ ConsoleSendData(n)

SpecData == InitDV /\ [][NextData]_vars

\* The nodes are started in any order and receive; the console pings, and
\* clients that are no routers publish on the channels.
NextDVOpen ==
    \E n \in Nodes :
        \/ StartNode(n)
        \/ ListenForMessages(n)
        \/ ConsolePing(n)
        \/ PublishForeign(n)
        \/ PublishEcho(n)

SpecDVOpen == InitDV /\ [][NextDVOpen]_vars

\* A between B and C, which both list D, a node that never starts.
DvDiamond ==
    [n \in {"A", "B", "C"} |->
        [algorithm |-> "distance_vector", routing_algorithm |-> None,
         neighbors |-> CASE n = "A" -> <<"C", "B">>
                         [] n = "B" -> <<"A", "D">>
                         [] OTHER   -> <<"A", "D">>]]

InitDVFail == InitNetwork(DvDiamond)

\* _monitor_neighbors, lines 70-94: one iteration of the loop that finds one
\* neighbour silent for longer than timeout_threshold.
MonitorFailure(n) ==
    /\ LoopTest(router[n])
    /\ hist.failures < MaxFailures
    /\ \E dead_neighbor \in SeqToSet(router[n].neighbors) :
         Handled(n, MonitorNeighbors(router[n], {dead_neighbor}), channel)
    /\ hist' = [hist EXCEPT !.failures = @ + 1, !.neighbor_changes = 1]
    /\ UNCHANGED <<config, thread, purevars>>

\* The nodes are started in any order, receive, and find neighbours dead.
NextDVFail ==
    \E n \in Nodes :
        \/ StartNode(n)
        \/ ListenForMessages(n)
        \/ MonitorFailure(n)

SpecDVFail == InitDVFail /\ [][NextDVFail]_vars

MaxDistance == 5     \* a node that holds this distance processes no more messages

\* The triangle A, B, C; A also lists D, a node that never starts.
DvCycle ==
    [n \in {"A", "B", "C"} |->
        [algorithm |-> "distance_vector", routing_algorithm |-> None,
         neighbors |-> CASE n = "A" -> <<"B", "C", "D">>
                         [] n = "B" -> <<"A", "C">>
                         [] OTHER   -> <<"A", "B">>]]

InitDVCycle == InitNetwork(DvCycle)

\* _monitor_neighbors, lines 70-94: one iteration of the loop that finds
\* silent a neighbour that is not running.
MonitorDeadNode(n) ==
    /\ LoopTest(router[n])
    /\ hist.failures < MaxFailures
    /\ \E dead_neighbor \in SeqToSet(router[n].neighbors) :
         /\ ~router[dead_neighbor].running
         /\ Handled(n, MonitorNeighbors(router[n], {dead_neighbor}), channel)
    /\ hist' = [hist EXCEPT !.failures = @ + 1, !.neighbor_changes = 1]
    /\ UNCHANGED <<config, thread, purevars>>

\* The finite distances node n holds.
FiniteDistances(n) ==
    {router[n].distance_vector[d] : d \in DOMAIN router[n].distance_vector} \ {Inf}

\* listen_for_messages, while the node's distances are below MaxDistance.
ListenBelowMaxDistance(n) ==
    /\ \A c \in FiniteDistances(n) : c < MaxDistance
    /\ ListenForMessages(n)

\* The nodes are started in any order, receive, and find dead the neighbour
\* that never started.
NextDVCycle ==
    \E n \in Nodes :
        \/ StartNode(n)
        \/ ListenBelowMaxDistance(n)
        \/ MonitorDeadNode(n)

SpecDVCycle == InitDVCycle /\ [][NextDVCycle]_vars

\* The nodes of the network, running or not.
NetworkSize == Cardinality(Ids)

\* C38: in distance-vector mode no node holds a finite distance greater than
\* the number of nodes less one.
C38_NoCountToInfinity ==
    \A n \in Nodes : \A c \in FiniteDistances(n) : c <= NetworkSize - 1

\* Nodes a and b are active neighbours of each other, and each has the other
\* as its next hop for d.
TwoNodeLoop(a, b, d) ==
    /\ a # b
    /\ router[a].running /\ router[b].running
    /\ Has(router[a].neighbors, b) /\ Has(router[b].neighbors, a)
    /\ Get(router[a].routing_table, d, None) = b
    /\ Get(router[b].routing_table, d, None) = a

\* The DV updates that wait to be processed next: n and the head of its channel.
PendingDvUpdates ==
    {n \in Nodes : /\ router[n].running
                   /\ router[n].algorithm = "distance_vector"
                   /\ channel[n] # <<>>
                   /\ Head(channel[n]).type = "DV_UPDATE"}

\* The node's state with the received vector cached, as the relaxation reads it.
WithVector(r, dv_msg) ==
    [r EXCEPT !.neighbor_vectors = Put(@, dv_msg.from, dv_msg.distance_vector)]

\* new differs from the tables of r in a cost, a next hop or a destination.
TablesDiffer(r, new) ==
    \/ new.distance_vector # r.distance_vector
    \/ new.routing_table # r.routing_table

\* out is one DV update from r to each of its active neighbours, in order.
OneUpdateEach(r, out) ==
    /\ Len(out) = Len(r.neighbors)
    /\ \A i \in 1..Len(out) :
          /\ out[i].type = "DV_UPDATE"
          /\ out[i].from = r.node_id
          /\ out[i].to = r.neighbors[i]

\* res is what process_dv_update gave in state r, new the tables that the
\* relaxation computes with the received vector.
RebroadcastOnChange(r, new, res) ==
    ~res.raised =>
        /\ (res.out # <<>>) <=> TablesDiffer(r, new)
        /\ TablesDiffer(r, new) =>
              /\ OneUpdateEach(res.r, res.out)
              /\ res.r.distance_vector = new.distance_vector
              /\ res.r.routing_table = new.routing_table
        /\ ~TablesDiffer(r, new) =>
              /\ res.r.distance_vector = r.distance_vector
              /\ res.r.routing_table = r.routing_table

\* C30: processing a received DV update sends DV updates to the active
\* neighbours exactly when the relaxation changed a cost or a next hop or
\* removed a destination; otherwise nothing is sent and the distance vector
\* and the routing table stay as they were.
C30_ChangeTriggeredRebroadcast ==
    \A n \in PendingDvUpdates :
        RebroadcastOnChange(router[n],
                            BellmanFordTables(WithVector(router[n], Head(channel[n]))),
                            ProcessDvUpdate(router[n], Head(channel[n])))

\* One node is about to process an update that changes nothing and sends
\* nothing, another one an update that changes its tables and is announced
\* to two neighbours.
C30_Witness ==
    /\ \E n \in PendingDvUpdates :
          /\ ~ProcessDvUpdate(router[n], Head(channel[n])).raised
          /\ ProcessDvUpdate(router[n], Head(channel[n])).out = <<>>
          /\ DOMAIN router[n].routing_table # {}
    /\ \E n \in PendingDvUpdates :
          /\ ~ProcessDvUpdate(router[n], Head(channel[n])).raised
          /\ Len(ProcessDvUpdate(router[n], Head(channel[n])).out) = 2
          /\ ProcessDvUpdate(router[n], Head(channel[n])).r.routing_table
                # router[n].routing_table

\* The DV updates of node n among the messages of l.
DvUpdatesOf(l, n) ==
    {i \in 1..Len(l) : l[i].type = "DV_UPDATE" /\ l[i].from = n}

\* The step is the discovery of new_neighbor by distance-vector node n.
Discovers(n, new_neighbor) ==
    /\ router[n].running /\ router[n].algorithm = "distance_vector"
    /\ ~Has(router[n].neighbors, new_neighbor)
    /\ router'[n].neighbors = Append(router[n].neighbors, new_neighbor)

\* The step announced the vector of n to each of its subscribed neighbours.
Announced(n) ==
    \A m \in SeqToSet(router'[n].neighbors) :
        (router[m].running /\ m # n) =>
            Cardinality(DvUpdatesOf(channel'[m], n))
                > Cardinality(DvUpdatesOf(channel[m], n))

\* C31: a distance-vector node that discovers a new neighbour N holds N at
\* cost 1 with next hop N afterwards and broadcasts its vector to its active
\* neighbours, N included, in the handling of that discovery.
C31_NewNeighborAdvertised ==
    [][\A n \in Nodes, new_neighbor \in Ids :
          Discovers(n, new_neighbor) =>
              /\ Get(router'[n].distance_vector, new_neighbor, Inf) = 1
              /\ Get(router'[n].routing_table, new_neighbor, None) = new_neighbor
              /\ Announced(n)]_vars

\* C21: in distance-vector mode no two adjacent nodes have each other as next
\* hop for the same destination, in any state, with updates in flight or not.
C21_NoTwoNodeLoop ==
    \A a \in Nodes, b \in Nodes, d \in Ids : ~TwoNodeLoop(a, b, d)

\* The topology the configuration describes, every link of cost 1.
ConfigGraph ==
    [n \in DOMAIN config |->
        [m \in SeqToSet(config[n].neighbors) \cap DOMAIN config |-> 1]]

\* C1: a Data message is handled as 'for this node' only at the node that
\* send_data was given as destination, never at an intermediate node.
C1_DeliveredOnlyAtDestination ==
    \A e \in hist.delivered : e.at = e.dest

\* Every node runs, nothing is waiting on any channel, and no neighbour was
\* ever lost or added: all that can follow are Hellos between known neighbours.
DvQuiet ==
    /\ \A n \in DOMAIN config : router[n].running
    /\ InFlight(channel) = 0
    /\ hist.failures = 0
    /\ hist.neighbor_changes = 0

DvConverged ==
    \A n \in DOMAIN config : \A d \in DOMAIN config \ {n} :
        /\ d \in DOMAIN router[n].distance_vector
        /\ router[n].distance_vector[d] = TrueMinCost(ConfigGraph, n, d)
        /\ d \in DOMAIN router[n].routing_table
        /\ router[n].routing_table[d] \in DOMAIN ConfigGraph[n]
        /\ TrueMinCost(ConfigGraph, router[n].routing_table[d], d)
              = TrueMinCost(ConfigGraph, n, d) - 1

\* C2: on the static line A - B - C, once the nodes have exchanged all their
\* updates, every distance vector holds the true hop counts and every routing
\* table a next hop on a shortest path.
C2_ConvergedWhenQuiet ==
    DvQuiet => DvConverged

\* The nodes that run in distance-vector mode.
DvRunning == {n \in Nodes : router[n].running /\ router[n].algorithm = "distance_vector"}

\* C12: in distance-vector mode a node's distance vector maps the node's own
\* id to cost 0 in every reachable state.
C12_SelfCostZero ==
    \A n \in DvRunning :
        /\ n \in DOMAIN router[n].distance_vector
        /\ router[n].distance_vector[n] = 0

\* C13: a node's routing table never holds an entry whose destination is the
\* node itself.
C13_NoRouteToSelf ==
    \A n \in Nodes : router[n].running => n \notin DOMAIN router[n].routing_table

\* C22: a node that has received an Echo from X has X seen and active and
\* has sent a Hello back to X.
C22_EchoAnswered == hist.echo_unanswered = {}

\* C18: a malformed message leaves the structures of the node that receives
\* it as they are, and no well-formed update that arrives later fails.
C18_MalformedDropped ==
    /\ hist.malformed_effect = {}
    /\ hist.wellformed_raised = {}

\* C5: every distance-vector update sent to a neighbour N advertises every
\* stored destination: with cost infinity when its next hop is N and it is not
\* N itself, with its stored cost otherwise, and N itself with its stored cost.
C5_PoisonReverse ==
    \A m \in Waiting("DV_UPDATE") :
        /\ DOMAIN m.distance_vector = DOMAIN m.basis.distance_vector
        /\ m.to \in DOMAIN m.distance_vector
        /\ \A d \in DOMAIN m.distance_vector :
              m.distance_vector[d] =
                  IF d # m.to /\ Get(m.basis.routing_table, d, None) = m.to
                  THEN Inf
                  ELSE m.basis.distance_vector[d]

\* An update that poisons a route of finite stored cost.
C5_Witness ==
    \E m \in Waiting("DV_UPDATE") :
        \E d \in DOMAIN m.distance_vector :
            /\ d # m.to
            /\ Get(m.basis.routing_table, d, None) = m.to
            /\ m.basis.distance_vector[d] < Inf
            /\ m.distance_vector[d] = Inf

LsTriangle ==
    [n \in {"A", "B", "C"} |->
        [algorithm |-> "link_state", routing_algorithm |-> "dijkstra",
         neighbors |-> CASE n = "A" -> <<"B", "C", "D">>
                         [] n = "B" -> <<"A", "C">>
                         [] OTHER   -> <<"A", "B">>]]

InitLS == InitNetwork(LsTriangle)

\* The nodes are started in any order, receive, and monitor their neighbours.
NextLS ==
    \E n \in Nodes :
        \/ StartNode(n)
        \/ ListenForMessages(n)
        \/ MonitorStep(n)

SpecLS == InitLS /\ [][NextLS]_vars

\* The line A - B - C, every node running link_state with flooding.
LsLine ==
    [n \in {"A", "B", "C"} |->
        [algorithm |-> "link_state", routing_algorithm |-> "flooding",
         neighbors |-> CASE n = "A" -> <<"B">>
                         [] n = "B" -> <<"A", "C">>
                         [] OTHER   -> <<"B">>]]

InitLSConsole == InitNetwork(LsLine)

\* The nodes are started in any order, receive, and are given commands.
NextLSConsole ==
    \E n \in Nodes :
        \/ StartNode(n)
        \/ ListenForMessages(n)
        \/ ConsoleAlgorithm(n)
        \/ ConsoleInfo(n)
        \/ ConsoleSendData(n)
        \/ ConsoleRoute(n)
        \/ ConsolePing(n)

SpecLSConsole == InitLSConsole /\ [][NextLSConsole]_vars

\* The nodes that run in link-state mode.
LsRunning == {n \in Nodes : router[n].running /\ router[n].algorithm = "link_state"}

\* calculate_routing_table gave once for the node r: a second call right after
\* gives the same table and outcome, and the call left every field but the
\* routing table as it was.
SameAgain(r, once, twice) ==
    /\ twice.r.routing_table = once.r.routing_table
    /\ twice.raised = once.raised
    /\ [once.r EXCEPT !.routing_table = r.routing_table] = r
    /\ [twice.r EXCEPT !.routing_table = once.r.routing_table] = once.r

Recalculated(r, once) == SameAgain(r, once, CalculateRoutingTable(once.r))

TableIsDerived(r, calc) ==
    /\ ~calc.raised
    /\ calc.r.routing_table = r.routing_table

\* C26: between operations, the routing table of a link-state node is the
\* result of calculate_routing_table on its database under its path mode.
C26_RoutingTableDerived ==
    \A n \in LsRunning : TableIsDerived(router[n], CalculateRoutingTable(router[n]))

\* The entry of table for destination d is right on graph: d is reachable
\* from self, the cost is the shortest distance, and the next hop is a
\* neighbour in self's own record from which the rest of a shortest path leads
\* to d; or d is unreachable and has no entry.
EntryIsShortest(graph, self, table, d) ==
    IF TrueMinCost(graph, self, d) < Inf
    THEN /\ d \in DOMAIN table
         /\ table[d].cost = TrueMinCost(graph, self, d)
         /\ table[d].next_hop \in DOMAIN graph[self]
         /\ table[d].next_hop \in DOMAIN graph
         /\ graph[self][table[d].next_hop]
                + TrueMinCost(graph, table[d].next_hop, d) = table[d].cost
    ELSE d \notin DOMAIN table

\* calc is the result of calculate_routing_table in dijkstra mode on graph.
DijkstraEntries(graph, self, calc) ==
    ~calc.raised =>
        /\ DOMAIN calc.r.routing_table \subseteq DOMAIN graph \ {self}
        /\ \A d \in DOMAIN graph \ {self} :
              EntryIsShortest(graph, self, calc.r.routing_table, d)

\* C27: after calculate_routing_table in dijkstra mode, every node of the
\* graph that is reachable from this node has an entry with the shortest
\* distance and the first hop of a shortest path, and no other node has one.
C27_DijkstraEntries ==
    \A n \in LsRunning :
        router[n].routing_algo = "dijkstra" =>
            DijkstraEntries(BuildNetworkGraph(router[n]), n,
                            CalculateRoutingTable(router[n]))

\* A node holds the table just calculated, with a route of two hops and a
\* node of its database that it cannot reach.
C27_Witness ==
    \E n \in LsRunning :
        /\ router[n].routing_algo = "dijkstra"
        /\ ~CalculateRoutingTable(router[n]).raised
        /\ router[n].routing_table = CalculateRoutingTable(router[n]).r.routing_table
        /\ \E d \in DOMAIN router[n].routing_table :
              /\ router[n].routing_table[d].cost = 2
              /\ router[n].routing_table[d].next_hop # d
        /\ \E x \in DOMAIN router[n].link_state_db \ {n} :
              x \notin DOMAIN router[n].routing_table

\* The entry of a flooding table for d is taken from a path with the fewest
\* hops among paths, the paths flooding_paths enumerated for d.
FewestHops(entry, paths) ==
    /\ \A i \in 1..Len(paths) : entry.cost <= Len(paths[i]) - 1
    /\ \E i \in 1..Len(paths) :
          /\ entry.cost = Len(paths[i]) - 1
          /\ entry.next_hop = paths[i][2]

\* flood and dijk are the results of calculate_routing_table on the same
\* database in flooding mode and in dijkstra mode, runs the calls of
\* flooding_paths: where neither raises, the tables hold the same destinations
\* at the same costs, and flooding took a path of fewest hops.
ModesAgree(flood, dijk, runs) ==
    (~flood.raised /\ ~dijk.raised) =>
        /\ DOMAIN flood.r.routing_table = DOMAIN dijk.r.routing_table
        /\ \A d \in DOMAIN flood.r.routing_table :
              /\ flood.r.routing_table[d].cost = dijk.r.routing_table[d].cost
              /\ FewestHops(flood.r.routing_table[d], runs[d].paths)

InMode(r, algorithm) ==
    CalculateRoutingTable(SetRoutingAlgorithm(r, algorithm))

\* C28: on the database of any link-state node, flooding mode and dijkstra
\* mode give entries for the same destinations at the same costs, and the
\* flooding entry is a path of fewest hops among the enumerated ones.
C28_FloodingAgreesWithDijkstra ==
    \A n \in LsRunning :
        ModesAgree(InMode(router[n], "flooding"), InMode(router[n], "dijkstra"),
                   FloodingRuns(NeighborOrder(router[n]), n))

\* On the database of some node both modes succeed, a destination is two
\* hops away, and flooding enumerated paths of different lengths for one.
C28_Witness ==
    \E n \in LsRunning :
        /\ ~InMode(router[n], "flooding").raised
        /\ ~InMode(router[n], "dijkstra").raised
        /\ \E d \in DOMAIN InMode(router[n], "flooding").r.routing_table :
              InMode(router[n], "flooding").r.routing_table[d].cost = 2
        /\ \E d \in DOMAIN InMode(router[n], "flooding").r.routing_table :
              /\ InMode(router[n], "flooding").r.routing_table[d].paths_found >= 2
              /\ \E i \in 1..Len(FloodingRuns(NeighborOrder(router[n]), n)[d].paths) :
                    Len(FloodingRuns(NeighborOrder(router[n]), n)[d].paths[i])
                      > InMode(router[n], "flooding").r.routing_table[d].cost + 1

\* The node's own record has its sequence counter and its active neighbours.
OwnRecordCurrent(r) ==
    /\ r.node_id \in DOMAIN r.link_state_db
    /\ r.link_state_db[r.node_id] = [seq_num |-> r.seq_num, neighbors |-> r.neighbors]

\* The LSAs of node n that carry sequence number s among the messages of l.
LsasOf(l, n, s) ==
    {i \in 1..Len(l) : l[i].type = "LSA" /\ l[i].from = n /\ l[i].seq_num = s}

\* res is what one call of flood_lsa gives in state r of a link-state node.
Originates(r, res) ==
    /\ res.r.seq_num = r.seq_num + 1
    /\ OwnRecordCurrent(res.r)
    /\ res.r.neighbors = r.neighbors
    /\ Len(res.out) = Len(r.neighbors)
    /\ \A i \in 1..Len(res.out) :
          /\ res.out[i].to = r.neighbors[i]
          /\ res.out[i].type = "LSA"
          /\ res.out[i].from = r.node_id
          /\ res.out[i].seq_num = r.seq_num + 1
          /\ res.out[i].neighbors = r.neighbors

\* What a step leaves at link-state node n: the own record is current, a
\* further call of flood_lsa originates correctly, the counter did not fall,
\* and each sequence number the step took went out at most once per channel,
\* the last of them once to each active neighbour that is subscribed, with
\* the node's active neighbours.
OriginatedInStep(n) ==
    /\ OwnRecordCurrent(router'[n])
    /\ Originates(router'[n], FloodLsa(router'[n]))
    /\ router'[n].seq_num >= router[n].seq_num
    /\ \A s \in (router[n].seq_num + 1)..router'[n].seq_num, m \in Ids :
          /\ Cardinality(LsasOf(channel'[m], n, s)) <= 1
          /\ LsasOf(channel[m], n, s) = {}
          /\ s = router'[n].seq_num =>
                /\ (LsasOf(channel'[m], n, s) # {})
                      <=> (Has(router'[n].neighbors, m) /\ router[m].running)
                /\ \A i \in LsasOf(channel'[m], n, s) :
                      channel'[m][i].neighbors = router'[n].neighbors

\* C29: each call of flood_lsa takes the next sequence number, leaves the own
\* record with it and with the active neighbours, and sends one LSA with both
\* to each active neighbour; the numbers a node originates only grow and
\* its own record always has the number of its counter.
C29_OwnLsaOrigination ==
    [][\A n \in Nodes :
          (router'[n].running /\ router'[n].algorithm = "link_state")
              => OriginatedInStep(n)]_vars

\* C33: every message that waits in a channel, of every type, carries a
\* from field that names a node.
C33_MessagesCarryFrom ==
    \A m \in Ids : \A i \in 1..Len(channel[m]) :
        /\ "from" \in DOMAIN channel[m][i]
        /\ channel[m][i].from \in Ids

\* C32: hops counts the transmissions of a copy from its originator: the
\* LSAs a node originates in a step reach each neighbour in one transmission
\* and all carry hops 1.
C32_HopsCountTransmissions ==
    [][\A n \in Nodes, m \in Ids :
          (router'[n].running /\ router'[n].algorithm = "link_state") =>
              \A s \in (router[n].seq_num + 1)..router'[n].seq_num :
                  \A i \in LsasOf(channel'[m], n, s) : channel'[m][i].hops = 1]_vars

\* A node has originated at least three LSAs, with a neighbour set that is no
\* longer the configured one, and the last of them is in a neighbour's channel.
C29_Witness ==
    \E n \in LsRunning :
        /\ router[n].seq_num >= 3
        /\ router[n].neighbors # config[n].neighbors
        /\ OwnRecordCurrent(router[n])
        /\ \E m \in SeqToSet(router[n].neighbors) :
              LsasOf(channel[m], n, router[n].seq_num) # {}

\* Every entry of the database old is in new with a sequence number that is
\* not smaller, and with the same neighbours unless the number is greater.
DbMonotone(old, new) ==
    \A s \in DOMAIN old :
        /\ s \in DOMAIN new
        /\ new[s].seq_num >= old[s].seq_num
        /\ new[s].neighbors # old[s].neighbors => new[s].seq_num > old[s].seq_num

\* C14: in every step, for every node and every source, the sequence number
\* stored for the source does not decrease, and the neighbours stored for it
\* change only if the number strictly increases or the entry is created.
C14_DatabaseMonotone ==
    [][\A n \in Nodes :
          DbMonotone(router[n].link_state_db, router'[n].link_state_db)]_vars

\* A node stores sequence number 2 for another node, holds a placeholder
\* entry, and an older LSA of that other node is waiting on its channel.
C14_Witness ==
    \E n \in LsRunning :
        /\ \E s \in DOMAIN router[n].link_state_db \ {n} :
              /\ router[n].link_state_db[s].seq_num = 2
              /\ \E i \in 1..Len(channel[n]) :
                    /\ channel[n][i].type = "LSA"
                    /\ channel[n][i].from = s
                    /\ channel[n][i].seq_num = 1
        /\ \E x \in DOMAIN router[n].link_state_db :
              router[n].link_state_db[x].seq_num = -1

\* C16: send_data returns False exactly when the node has no next hop for the
\* destination, and then publishes nothing and raises nothing; request_route
\* for a target without a route returns (None, infinity).
C16_NoRouteOutcome ==
    /\ \A c \in hist.send_results :
          /\ c.returned = "False" <=> c.no_next_hop
          /\ c.no_next_hop => c.published = 0 /\ c.returned # "raised"
    /\ \A q \in hist.route_results :
          q.no_route => q.next_hop = None /\ q.cost = Inf

\* The router_config a node of the line is constructed with: link_state with
\* flooding, link_state with a path algorithm that does not exist, or a
\* routing algorithm that does not exist.
Settings ==
    {[algorithm |-> "link_state", routing_algorithm |-> "flooding"],
     [algorithm |-> "link_state", routing_algorithm |-> "bfs"],
     [algorithm |-> "rip", routing_algorithm |-> None]}

ConstructConfigs ==
    {[n \in {"A", "B", "C"} |->
         [algorithm |-> pick[n].algorithm,
          routing_algorithm |-> pick[n].routing_algorithm,
          neighbors |-> LsLine[n].neighbors]] : pick \in [{"A", "B", "C"} -> Settings]}

InitConstruct == \E cfg \in ConstructConfigs : InitNetwork(cfg)

\* The nodes are constructed in any order, again after a construction that
\* failed, and those that run receive.
NextConstruct ==
    \E n \in Nodes :
        \/ StartNode(n)
        \/ ListenForMessages(n)

SpecConstruct == InitConstruct /\ [][NextConstruct]_vars

\* __init__, lines 45-50, and calculate_routing_table, lines 545-595: the
\* configurations that name no algorithm the node implements.
InvalidConfig(cfg) ==
    \/ cfg.algorithm \notin {"distance_vector", "link_state"}
    \/ /\ cfg.algorithm = "link_state"
       /\ cfg.routing_algorithm \notin {"dijkstra", "flooding"}

\* The messages on any channel that node n sent or originated.
SentBy(n) ==
    UNION {{channel[k][i] : i \in {j \in 1..Len(channel[k]) :
                                     channel[k][j].from = n}} : k \in Ids}

\* C19: a node whose configuration names an unknown routing algorithm, or in
\* link-state mode an unknown path algorithm, is never constructed: it does
\* not run, its threads are not started, and it has sent no message.
C19_FailFastConstruction ==
    \A n \in Nodes :
        InvalidConfig(config[n]) =>
            /\ ~router[n].running
            /\ thread[n] = NoThreads
            /\ SentBy(n) = {}

(* ===== the threads of a node ===== *)

\* The pair A - B of the line; B is configured with the neighbour C, which is
\* never started.
PairOf(cfg) == [n \in {"A", "B"} |-> cfg[n]]

ThreadConfigs == {PairOf(DvLine), PairOf(LsLine)}

InitThreads == \E cfg \in ThreadConfigs : InitNetwork(cfg)

\* The monitor of node n goes to pc with the local list dead_neighbors.
MonitorAt(n, pc, dead_neighbors, found) ==
    thread' = [thread EXCEPT ![n] = [@ EXCEPT !.monitor = pc,
                                              !.dead_neighbors = dead_neighbors,
                                              !.found = found]]

\* _monitor_neighbors, lines 72-82: the loop test passes and the sweep finds
\* the neighbours of timed_out silent for longer than timeout_threshold.
MonitorSweep(n) ==
    /\ thread[n].monitor = "test"
    /\ LoopTest(router[n])
    /\ hist.monitored < MaxMonitor
    /\ \E timed_out \in SUBSET SeqToSet(router[n].neighbors) :
         MonitorAt(n, "handle",
                   SelectSeq(router[n].neighbor_last_seen,
                             LAMBDA x : x \in timed_out /\ Has(router[n].neighbors, x)),
                   FALSE)
    /\ hist' = [hist EXCEPT !.monitored = @ + 1]
    /\ UNCHANGED <<config, router, channel, purevars>>

\* _monitor_neighbors, lines 85-86, and _handle_neighbor_failure, lines
\* 120-126: the handler is entered for the next dead neighbour and removes it.
MonitorEnterFailure(n) ==
    /\ thread[n].monitor = "handle"
    /\ thread[n].dead_neighbors # <<>>
    /\ router' = [router EXCEPT
                     ![n] = FailureRemove(@, Head(thread[n].dead_neighbors))]
    /\ MonitorAt(n, "update", thread[n].dead_neighbors,
                 Has(router[n].neighbors, Head(thread[n].dead_neighbors)))
    /\ UNCHANGED <<config, channel, hist, purevars>>

\* What a call of the failure handler for a neighbour that line 121 did not
\* find did all the same: res is the result of lines 128-169 on r.
Reapplied(h, n, r, res) ==
    [h EXCEPT !.reapplied_effect =
        IF /\ ~thread[n].found
           /\ \/ res.out # <<>>
              \/ Tables(res.r) # Tables(r)
              \/ res.r.seq_num # r.seq_num
        THEN @ \cup {n} ELSE @]

\* _handle_neighbor_failure, lines 128-169, in the monitor: the tables are
\* updated and the change is announced; an exception ends the iteration
\* (line 93).
MonitorFinishFailure(n) ==
    /\ thread[n].monitor = "update"
    /\ Handled(n, FailureUpdate(router[n], Head(thread[n].dead_neighbors)), channel)
    /\ hist' = Reapplied(hist, n, router[n],
                         FailureUpdate(router[n], Head(thread[n].dead_neighbors)))
    /\ IF FailureUpdate(router[n], Head(thread[n].dead_neighbors)).raised
       THEN MonitorAt(n, "test", <<>>, FALSE)
       ELSE MonitorAt(n, "handle", Tail(thread[n].dead_neighbors), FALSE)
    /\ UNCHANGED <<config, purevars>>

\* _monitor_neighbors, lines 88-91: the Hellos, the sleep, and back to the
\* loop test.
MonitorHello(n) ==
    /\ thread[n].monitor = "handle"
    /\ thread[n].dead_neighbors = <<>>
    /\ Handled(n, [r |-> router[n], out |-> SendHelloToNeighbors(router[n])], channel)
    /\ MonitorAt(n, "test", <<>>, FALSE)
    /\ UNCHANGED <<config, hist, purevars>>

\* _monitor_neighbors, line 72: the loop test fails and the thread ends.
MonitorExit(n) ==
    /\ thread[n].monitor = "test"
    /\ ~LoopTest(router[n])
    /\ thread' = [thread EXCEPT ![n] = [@ EXCEPT !.monitor = "exited"]]
    /\ UNCHANGED <<config, router, channel, hist, purevars>>

\* listen_for_messages, line 664: the loop test fails, at the latest when the
\* receive of line 666 has timed out, and the thread ends.
ListenerExit(n) ==
    /\ thread[n].listener = "test"
    /\ ~LoopTest(router[n])
    /\ thread' = [thread EXCEPT ![n] = [@ EXCEPT !.listener = "exited"]]
    /\ UNCHANGED <<config, router, channel, hist, purevars>>

\* stop, lines 754-757, called by the main thread.
StopNode(n) ==
    /\ router[n].running
    /\ router' = [router EXCEPT ![n] = Stop(@)]
    /\ channel' = ClosedIf(TRUE, n)
    /\ UNCHANGED <<config, thread, hist, purevars>>

\* remove_neighbor, lines 689-697.
RemoveNeighborResult(r, neighbor_id) ==
    IF Has(r.neighbors, neighbor_id) THEN HandleNeighborFailure(r, neighbor_id)
    ELSE [r |-> [r EXCEPT !.known_neighbors = @ \ {neighbor_id}], out |-> <<>>,
          raised |-> FALSE]

\* remove_neighbor called by the main thread for a neighbour of the node.
RemoveNeighbor(n) ==
    /\ router[n].running
    /\ hist.console < MaxConsole
    /\ \E neighbor_id \in SeqToSet(config[n].neighbors) :
         Handled(n, RemoveNeighborResult(router[n], neighbor_id), channel)
    /\ hist' = [hist EXCEPT !.console = @ + 1]
    /\ UNCHANGED <<config, thread, purevars>>

\* The threads of the nodes and the calls of the main thread, interleaved.
NextThreads ==
    \E n \in Nodes :
        \/ StartNode(n)
        \/ ListenForMessages(n)
        \/ MonitorSweep(n)
        \/ MonitorEnterFailure(n)
        \/ MonitorFinishFailure(n)
        \/ MonitorHello(n)
        \/ RemoveNeighbor(n)
        \/ StopNode(n)
        \/ ListenerExit(n)
        \/ MonitorExit(n)

SpecThreads == InitThreads /\ [][NextThreads]_vars

\* C15: while the monitor of a node is inside the failure handler, between
\* the removal of the neighbour and the update of the tables, no other thread
\* changes the node's neighbour list, vector, database, vector cache or
\* routing table.
C15_HandlersMutuallyExclusive ==
    [][\A n \in Nodes :
          (thread[n].monitor = "update" /\ thread'[n].monitor = "update")
              => Tables(router'[n]) = Tables(router[n])]_vars

\* C17: a call of the failure handler for a neighbour that is no longer in
\* the neighbour list changes nothing and sends nothing.
C17_FailureHandlingIdempotent == hist.reapplied_effect = {}

\* The call of _handle_neighbor_failure at line 86 as the monitor's position
\* shows it: the call returns, or it raises and line 93 ends the iteration.
MonitorReturns(n) ==
    /\ thread[n].monitor = "update"
    /\ \/ MonitorAt(n, "handle", Tail(thread[n].dead_neighbors), FALSE)
       \/ MonitorAt(n, "test", <<>>, FALSE)

\* A step of a thread of node n whose loop test fails, or of the monitor
\* inside an iteration.
ThreadStep(n) ==
    \/ ListenerExit(n)
    \/ MonitorEnterFailure(n)
    \/ MonitorReturns(n)
    \/ MonitorHello(n)
    \/ MonitorExit(n)

\* The threads of a node are scheduled, the receive of line 666 returns after
\* its timeout, the handlers return and the sleep of line 91 ends: while a
\* thread of the node can take such a step, one is taken.
ThreadsScheduled == \A n \in Nodes : WF_thread(ThreadStep(n))

SpecThreadsFair == InitThreads /\ [][NextThreads]_vars /\ ThreadsScheduled

\* The nodes that were constructed and then stopped.
Stopped(n) == thread[n].listener # "none" /\ ~router[n].running

\* C20: once a node is stopped, its listener and its monitor both end; a
\* thread that is at its loop test starts no further iteration, so that the
\* node's fields stay as they are and the monitor neither sweeps nor sends.
C20_ShutdownEndsLoops ==
    /\ [][\A n \in Nodes :
             (Stopped(n) /\ thread[n].monitor \in {"test", "exited"})
                 => /\ thread'[n].monitor \in {"test", "exited"}
                    /\ thread'[n].listener \in {"test", "exited"}
                    /\ router'[n] = router[n]
                    /\ channel'[n] = <<>>]_vars
    /\ \A n \in Nodes :
          Stopped(n) ~> (thread[n].listener = "exited" /\ thread[n].monitor = "exited")

\* A node whose monitor has run an iteration, that was stopped, and whose
\* threads have both ended.
C20_Witness ==
    \E n \in Nodes :
        /\ Stopped(n)
        /\ thread[n].listener = "exited"
        /\ thread[n].monitor = "exited"
        /\ hist.monitored > 0

(* ===== the periodic work of a link-state node ===== *)

InitLSPeriodic == InitNetwork(PairOf(LsLine))

\* _monitor_neighbors, lines 70-94: an iteration of the loop in which no
\* neighbour has timed out; it comes again every hello_interval.
MonitorIdle(n) ==
    /\ LoopTest(router[n])
    /\ Handled(n, MonitorNeighbors(router[n], {}), channel)
    /\ UNCHANGED <<config, thread, hist, purevars>>

\* The nodes are started in any order, receive, and monitor neighbours that
\* stay alive; nothing else happens to them.
NextLSPeriodic ==
    \E n \in Nodes :
        \/ StartNode(n)
        \/ ListenForMessages(n)
        \/ MonitorIdle(n)

\* The monitor thread of every node is scheduled and its sleep ends, and every
\* listener keeps receiving: what is published to a node is taken from its
\* channel, which is empty again and again.
PeriodicScheduled ==
    \A n \in Nodes :
        /\ WF_vars(MonitorIdle(n))
        /\ []<>(channel[n] = <<>>)

SpecLSPeriodic == InitLSPeriodic /\ [][NextLSPeriodic]_vars /\ PeriodicScheduled

\* Node b holds an LSA that node a originated: the entries a node makes for
\* others without an LSA carry seq_num 0 or -1.
HoldsLsaOf(b, a) ==
    /\ a \in DOMAIN router[b].link_state_db
    /\ router[b].link_state_db[a].seq_num >= 1

\* Nodes a and b run in link-state mode and are active neighbours of each other.
LsAdjacent(a, b) ==
    /\ a # b
    /\ a \in LsRunning /\ b \in LsRunning
    /\ Has(router[a].neighbors, b) /\ Has(router[b].neighbors, a)

\* C23: a running link-state node floods its LSA again and again, so that an
\* active neighbour that runs comes to hold an LSA of it.
C23_PeriodicReadvertisement ==
    \A a \in Nodes, b \in Nodes : LsAdjacent(a, b) ~> HoldsLsaOf(b, a)

\* The nodes are started in any order, receive, and monitor their neighbours,
\* some of which they find dead.
NextReprobe ==
    \E n \in Nodes :
        \/ StartNode(n)
        \/ ListenForMessages(n)
        \/ MonitorFailure(n)
        \/ MonitorIdle(n)

SpecReprobe == InitThreads /\ [][NextReprobe]_vars /\ PeriodicScheduled

\* Nodes a and b run and each has known the other as a neighbour.
MutuallyKnown(a, b) ==
    /\ a # b
    /\ router[a].running /\ router[b].running
    /\ b \in router[a].known_neighbors /\ a \in router[b].known_neighbors

\* C24: two running nodes that have known each other as neighbours, whatever
\* timeouts they have declared, become active neighbours of each other again.
C24_LostNeighborsReprobed ==
    \A a \in Nodes, b \in Nodes :
        MutuallyKnown(a, b)
            ~> (Has(router[a].neighbors, b) /\ Has(router[b].neighbors, a))

\* The nodes configured with one neighbour.  Where no node pings and no
\* monitor runs, every message such a node receives was delivered by that
\* neighbour, the originator of the LSA or a relay.
SingleNeighbor == {n \in DOMAIN config : Len(config[n].neighbors) = 1}

\* C25: a node never forwards an LSA to the neighbour that delivered it: a
\* node that hears from one neighbour only forwards no LSA at all.
C25_NotBackToSender ==
    \A key \in DOMAIN hist.lsa_forwards : key[1] \notin SingleNeighbor

\* C3: a node forwards the LSA (S, q) of another node S at most once.
C3_LsaForwardedAtMostOnce ==
    \A k \in DOMAIN hist.lsa_forwards : hist.lsa_forwards[k] <= 1

\* A node that forwarded an LSA has received a further copy of it.
C3_Witness ==
    \E k \in hist.lsa_duplicates : hist.lsa_forwards[k] = 1

\* Every neighbour named by a record of the database is a key of it.
ClosedDatabase(db) ==
    \A k \in DOMAIN db : SeqToSet(db[k].neighbors) \subseteq DOMAIN db

\* C36: in link-state mode every node id in the neighbour list of a record of
\* a node's database, its own record included, is a key of that database.
C36_ClosedTopologyGraph ==
    \A n \in LsRunning : ClosedDatabase(router[n].link_state_db)

\* The LSAs that wait to be processed next: n and the head of its channel.
PendingLsas ==
    {n \in LsRunning : channel[n] # <<>> /\ Head(channel[n]).type = "LSA"}

\* res is what process_lsa gave for lsa in state r: the record of the source
\* now has the sequence number of the LSA, which it had not before.
Accepted(r, lsa, res) ==
    /\ lsa.from \in DOMAIN res.r.link_state_db
    /\ res.r.link_state_db[lsa.from].seq_num = lsa.seq_num
    /\ Get(r.link_state_db, lsa.from, [seq_num |-> -2]).seq_num # lsa.seq_num

\* res.out holds a copy of lsa for every active neighbour but its source.
ForwardedToOthers(r, lsa, res) ==
    \A m \in SeqToSet(r.neighbors) \ {lsa.from} :
        \E i \in 1..Len(res.out) :
            /\ res.out[i].type = "LSA" /\ res.out[i].to = m
            /\ res.out[i].from = lsa.from /\ res.out[i].seq_num = lsa.seq_num

AcceptImpliesForward(r, lsa, res) ==
    Accepted(r, lsa, res) => ForwardedToOthers(r, lsa, res)

\* C37: whenever processing an LSA records its sequence number for its source,
\* the same processing forwards the LSA to the other active neighbours.
C37_AcceptImpliesForward ==
    \A n \in PendingLsas :
        AcceptImpliesForward(router[n], Head(channel[n]),
                             ProcessLsa(router[n], Head(channel[n])))

(* ===== delivery of a flooded LSA ===== *)

\* The nodes of the line are started in any order, receive, send their
\* Hellos, and are given the algorithm command.
NextLSFlood ==
    \E n \in Nodes :
        \/ StartNode(n)
        \/ ListenForMessages(n)
        \/ MonitorIdle(n)
        \/ ConsoleAlgorithm(n)

SpecLSFlood == InitLSConsole /\ [][NextLSFlood]_vars /\ PeriodicScheduled

\* The sequence numbers a node of the line floods with.
FloodedSeqs == 1..2

\* Every node runs, and the LSA that s flooded with sequence number q waits
\* in the channel of each neighbour of s: every copy was published to a
\* subscriber, and every later forward finds one as well.
FloodedToSubscribers(s, q) ==
    /\ \A n \in Nodes : router[n].running
    /\ \A m \in Nodes :
           Has(router[s].neighbors, m) => LsasOf(channel[m], s, q) # {}

\* Node b holds a record of s with sequence number q or later and the
\* neighbours s advertised.
HoldsRecord(b, s, q) ==
    /\ s \in DOMAIN router[b].link_state_db
    /\ router[b].link_state_db[s].seq_num >= q
    /\ router[b].link_state_db[s].neighbors = router[s].neighbors

\* C40: on the connected line, with every node running and no message lost,
\* an LSA that s flooded with sequence number q is eventually held, with that
\* number or a later one, by every other node.
C40_LsaFloodDelivery ==
    \A s \in Nodes, q \in FloodedSeqs :
        FloodedToSubscribers(s, q)
            ~> (\A b \in Nodes \ {s} : HoldsRecord(b, s, q))

(* ===== the listener's Bellman-Ford pass and the monitor ===== *)

\* The listener of node n goes to pc with the locals bellman_ford.
ListenerAt(n, pc, bellman_ford) ==
    thread' = [thread EXCEPT ![n] = [@ EXCEPT !.listener = pc,
                                              !.bellman_ford = bellman_ford]]

\* process_dv_update, lines 366-375, and apply_bellman_ford, lines 388-420:
\* the listener takes a DV update, caches its vector, copies the old tables
\* and computes the new ones from the neighbour list as it is now.
ListenerRelaxes(n) ==
    /\ LoopTest(router[n])
    /\ thread[n].listener = "test"
    /\ router[n].algorithm = "distance_vector"
    /\ channel[n] # <<>>
    /\ Head(channel[n]).type = "DV_UPDATE"
    /\ ~DvUpdateRaises(router[n], Head(channel[n]))
    /\ ~BellmanFordRaises(WithVector(router[n], Head(channel[n])))
    /\ router' = [router EXCEPT ![n] =
                     [WithVector(@, Head(channel[n])) EXCEPT
                         !.neighbor_last_seen = Touch(@, Head(channel[n]).from)]]
    /\ channel' = [channel EXCEPT ![n] = Tail(@)]
    /\ ListenerAt(n, "changed",
                  [old |-> router[n],
                   new |-> BellmanFordTables(WithVector(router[n], Head(channel[n])))])
    /\ UNCHANGED <<config, hist, purevars>>

\* apply_bellman_ford, lines 441-448, with the comparison of lines 422-439
\* made between the new tables and the copies of the old ones.
AssignIfChanged(r, bellman_ford) ==
    IF BellmanFordChanged(bellman_ford.old, bellman_ford.new)
    THEN [r |-> [r EXCEPT !.distance_vector = bellman_ford.new.distance_vector,
                          !.routing_table = bellman_ford.new.routing_table],
          updated |-> TRUE, raised |-> FALSE]
    ELSE [r |-> r, updated |-> FALSE, raised |-> FALSE]

\* apply_bellman_ford, lines 422-448, and process_dv_update, lines 377-384:
\* the listener ends its pass and broadcasts if the tables changed.
ListenerAssigns(n) ==
    /\ thread[n].listener = "changed"
    /\ Handled(n,
               BroadcastIfUpdated(AssignIfChanged(router[n], thread[n].bellman_ford),
                   <<>>, [kind |-> "update", dead |-> None, invalidated |-> {}]),
               channel)
    /\ ListenerAt(n, "test", <<>>)
    /\ UNCHANGED <<config, hist, purevars>>

\* listen_for_messages for a message that is no DV update.
ListenerHandlesOther(n) ==
    /\ thread[n].listener = "test"
    /\ channel[n] # <<>>
    /\ Head(channel[n]).type # "DV_UPDATE"
    /\ ListenForMessages(n)

\* The monitor's failure handling of a neighbour that is not running is one
\* step, taken while the listener is at any point of its pass.
NextRace ==
    \E n \in Nodes :
        \/ StartNode(n)
        \/ ListenerRelaxes(n)
        \/ ListenerAssigns(n)
        \/ ListenerHandlesOther(n)
        \/ MonitorDeadNode(n)

SpecRace == InitDVFail /\ [][NextRace]_vars

\* Every next hop of the routing table of r is an active neighbour.
NextHopsActive(r) ==
    \A d \in DOMAIN r.routing_table : Has(r.neighbors, r.routing_table[d])

\* C39: in distance-vector mode, while no handler of a node is in execution,
\* every next hop of its routing table is one of its active neighbours.
C39_NextHopsAreLiveNeighbors ==
    \A n \in Nodes :
        (router[n].running /\ router[n].algorithm = "distance_vector"
           /\ thread[n].listener = "test")
            => NextHopsActive(router[n])

\* C4: an LSA whose source is stored with a sequence number not smaller than
\* the LSA's leaves the database and the routing table as they are and is not
\* forwarded.
C4_StaleLsaDropped ==
    hist.stale_effect = {}

====
